---- MODULE Spec2Model ----
(***************************************************************************)
(* Model of the GitLab review agent: the chunker and the review reducer of *)
(* OpenAIService, the retry helper retryWithBackoff, and the job tracker   *)
(* of the review controller (reviewJobs, processReviewAsync and the status,*)
(* history and feedback handlers).                                         *)
(*                                                                         *)
(* A JavaScript value that may be undefined is a sequence: <<>> stands for *)
(* undefined and <<v>> for the value v.                                    *)
(***************************************************************************)
EXTENDS Integers, Sequences, FiniteSets, TLC

VARIABLES
    \* chunkChanges applied to one list of file changes
    changes, nRuns, chunks, chunked,
    \* combineReviews applied to one list of chunk results
    chunkReviews, combinedReview, combined,
    \* one call of retryWithBackoff(fn, maxAttempts, baseDelay)
    maxAttempts, baseDelay, attempt, retryPc, lastError, fnCalls, fnErrors,
    fnValue, delays, retryResult, retryThrown,
    \* the review controller: the job collection, the position and locals of
    \* each job's processReviewAsync, and the notes posted to each job's
    \* merge request
    reviewJobs, flow, notes,
    \* one call of GitLabService.executeWithRetry(apiCall, operation): the
    \* request apiCall sends, the position in the loop, the failures of the
    \* attempts so far, the delays waited, the outcome of the call, and how
    \* often the GitLab server carried the request out
    execRequest, execAttempt, execPc, execErrors, execDelays, execResult,
    execThrown, execServed,
    \* the hourly sweep of a job collection: the clock (ms), the retention
    \* window (days) the sweep was started with, and the counts the sweeps
    \* so far returned
    now, retentionDays, cleaned,
    \* POST /api/review/analyze: the request handled last and its response
    req, res,
    \* the commits handed to generateCodeReview with the file changes, and
    \* the prompts it builds for the chunks
    commits, prompts

chunkVars == <<changes, nRuns, chunks, chunked>>
combineVars == <<chunkReviews, combinedReview, combined>>
retryVars == <<maxAttempts, baseDelay, attempt, retryPc, lastError, fnCalls,
               fnErrors, fnValue, delays, retryResult, retryThrown>>
jobVars == <<reviewJobs, flow, notes>>
execVars == <<execRequest, execAttempt, execPc, execErrors, execDelays,
              execResult, execThrown, execServed>>
sweepVars == <<now, retentionDays, cleaned>>
routeVars == <<req, res>>
promptVars == <<commits, prompts>>
\* what the actions of one component leave alone
outsideChunk == <<combineVars, retryVars, jobVars, execVars, sweepVars, routeVars,
    promptVars>>
outsideCombine == <<chunkVars, retryVars, jobVars, execVars, sweepVars, routeVars,
    promptVars>>
outsideRetry == <<chunkVars, combineVars, jobVars, execVars, sweepVars, routeVars,
    promptVars>>
outsideJobs == <<chunkVars, combineVars, retryVars, execVars, sweepVars, routeVars,
    promptVars>>
outsideExec == <<chunkVars, combineVars, retryVars, jobVars, sweepVars, routeVars,
    promptVars>>
outsideSweep == <<chunkVars, combineVars, retryVars, flow, notes, execVars, routeVars,
    promptVars>>
outsideRoute == <<chunkVars, combineVars, retryVars, notes, execVars, sweepVars,
    promptVars>>
vars == <<changes, nRuns, chunks, chunked, chunkReviews, combinedReview, combined,
          maxAttempts, baseDelay, attempt, retryPc, lastError, fnCalls,
          fnErrors, fnValue, delays, retryResult, retryThrown,
          reviewJobs, flow, notes,
          execRequest, execAttempt, execPc, execErrors, execDelays, execResult,
          execThrown, execServed, now, retentionDays, cleaned, req, res,
          commits, prompts>>

(***************************************************************************)
(* Bounds of the model.                                                    *)
(***************************************************************************)
\* the number of runs of equal files an input list of chunkChanges is made of
MaxSegs == 3
\* the number of chunk results handed to combineReviews
MaxChunkResults == 2
\* the number of issues of one file review
MaxIssues == 3
\* the largest maxAttempts retryWithBackoff is called with
MaxAttempts == 4
\* the number of changed files of a merge request under review
MaxDiffFiles == 2
\* the number of issues of one file review handed to postReviewComments
MaxPostIssues == 2
\* the number of half days the clock of the sweep advances
MaxHalfDays == 4
\* the number of sweeps that run
MaxSweeps == 2
\* the number of group and project segments of a merge-request URL
MaxPathSegs == 2
\* the number of runs of equal files of a merge request whose prompts are
\* built
MaxPromptRuns == 2
\* the number of commits of a merge request whose prompts are built
MaxCommits == 6

(***************************************************************************)
(* Generic helpers.                                                        *)
(***************************************************************************)
\* JavaScript's (x || 0) for a number that may be undefined
OrZero(x) == IF x = <<>> THEN 0 ELSE x[1]

RECURSIVE Flatten(_)
\* the concatenation of a sequence of sequences, in order
Flatten(ss) == IF ss = <<>> THEN <<>> ELSE Head(ss) \o Flatten(Tail(ss))

RECURSIVE Rep(_, _)
\* n copies of x
Rep(x, n) == IF n = 0 THEN <<>> ELSE <<x>> \o Rep(x, n - 1)

RECURSIVE SeqsUpTo(_, _)
\* all sequences over S of length at most n
SeqsUpTo(S, n) ==
    IF n = 0 THEN {<<>>}
    ELSE LET shorter == SeqsUpTo(S, n - 1)
         IN  shorter \cup {Append(s, x) : s \in shorter, x \in S}

(***************************************************************************)
(* OpenAIService.chunkChanges                                              *)
(***************************************************************************)
maxFilesPerChunk == 10
maxLinesPerChunk == 1000

\* (change.additions || 0) + (change.deletions || 0)
fileLines(change) == OrZero(change.additions) + OrZero(change.deletions)

\* mutant: the file-count test lets one file too many in
chunkFull_offByOne(currentChunk, currentLines, change) ==
    \/ Len(currentChunk) > maxFilesPerChunk
    \/ currentLines + fileLines(change) > maxLinesPerChunk

\* mutant: a chunk is closed when the file would fill it exactly
chunkFull_linesInclusive(currentChunk, currentLines, change) ==
    \/ Len(currentChunk) >= maxFilesPerChunk
    \/ currentLines + fileLines(change) >= maxLinesPerChunk

\* the condition under which a non-empty current chunk is closed
chunkFull(currentChunk, currentLines, change) ==
    \/ Len(currentChunk) >= maxFilesPerChunk
    \/ currentLines + fileLines(change) > maxLinesPerChunk

\* mutant: the chunk still open at the end of the loop is forgotten
chunkFlush_dropLast(chunksSoFar, currentChunk) == chunksSoFar

\* after the loop: the current chunk is pushed when it is not empty
chunkFlush(chunksSoFar, currentChunk) ==
    IF Len(currentChunk) > 0 THEN Append(chunksSoFar, currentChunk) ELSE chunksSoFar

RECURSIVE chunkLoop(_, _, _, _, _)
\* the for loop of chunkChanges, from file i on
chunkLoop(cs, i, chunksSoFar, currentChunk, currentLines) ==
    IF i > Len(cs) THEN chunkFlush(chunksSoFar, currentChunk)
    ELSE LET change == cs[i]
             close == chunkFull(currentChunk, currentLines, change)
                      /\ Len(currentChunk) > 0
         IN  IF close
             THEN chunkLoop(cs, i + 1, Append(chunksSoFar, currentChunk),
                            <<change>>, fileLines(change))
             ELSE chunkLoop(cs, i + 1, chunksSoFar,
                            Append(currentChunk, change),
                            currentLines + fileLines(change))

chunkChanges(cs) == chunkLoop(cs, 1, <<>>, <<>>, 0)

\* the (additions, deletions) pairs a file change may carry; the diffs
\* endpoint may leave either out
LineKinds ==
    { <<<<>>, <<>>>>, <<<<1>>, <<0>>>>, <<<<500>>, <<>>>>, <<<<300>>, <<300>>>>,
      <<<<400>>, <<600>>>>, <<<<1100>>, <<0>>>> }

\* the lengths of a run of equal files
RunLens == {1, 4, 11}

\* the file change at position i of the list, with the given line counts;
\* a file is named by its position
MkChange(i, pair) ==
    [new_path |-> i, additions |-> pair[1], deletions |-> pair[2]]

ChunkIdle ==
    /\ changes = <<>>
    /\ nRuns = 0
    /\ chunks = <<>>
    /\ chunked = FALSE

ChunkInit == ChunkIdle

\* the list of file changes grows by a run of n files of equal line counts
AddChanges ==
    /\ ~chunked
    /\ nRuns < MaxSegs
    /\ \E pair \in LineKinds, n \in RunLens :
          changes' = changes \o [i \in 1..n |-> MkChange(Len(changes) + i, pair)]
    /\ nRuns' = nRuns + 1
    /\ UNCHANGED <<chunks, chunked, outsideChunk>>

ChunkChangesCall ==
    /\ ~chunked
    /\ chunks' = chunkChanges(changes)
    /\ chunked' = TRUE
    /\ UNCHANGED <<changes, nRuns, outsideChunk>>

(***************************************************************************)
(* OpenAIService.combineReviews                                            *)
(***************************************************************************)
\* review.fileReviews || [], file.issues || [], review.keyInsights || []
OrEmpty(x) == IF x = <<>> THEN <<>> ELSE x[1]

\* mutant: the chunks are gone through from the last to the first
allFileReviews_reversed(rs) ==
    Flatten([k \in 1..Len(rs) |-> OrEmpty(rs[Len(rs) + 1 - k].fileReviews)])

\* the file reviews of all chunk results, in chunk order
allFileReviews(rs) == Flatten([k \in 1..Len(rs) |-> OrEmpty(rs[k].fileReviews)])

\* the issues of all file reviews, in order
allIssues(rs) ==
    LET frs == allFileReviews(rs)
    IN  Flatten([k \in 1..Len(frs) |-> OrEmpty(frs[k].issues)])

\* mutant: equal issues are counted once
countSeverity_distinct(issues, sev) ==
    Cardinality({issues[i] : i \in {k \in 1..Len(issues) : issues[k].severity = sev}})

\* allIssues.filter((issue) => issue.severity === sev).length
countSeverity(issues, sev) ==
    Cardinality({i \in 1..Len(issues) : issues[i].severity = sev})

issueCountsOf(rs) ==
    [high   |-> countSeverity(allIssues(rs), "high"),
     medium |-> countSeverity(allIssues(rs), "medium"),
     low    |-> countSeverity(allIssues(rs), "low")]

\* mutant: the thresholds are compared with >= instead of >
recommendationOf_offByOne(issueCounts) ==
    IF issueCounts.high > 0 THEN "request-changes"
    ELSE IF issueCounts.medium >= 2 \/ issueCounts.low >= 5 THEN "comment"
    ELSE "approve"

\* the overall recommendation derived from the severity counts
recommendationOf(issueCounts) ==
    IF issueCounts.high > 0 THEN "request-changes"
    ELSE IF issueCounts.medium > 2 \/ issueCounts.low > 5 THEN "comment"
    ELSE "approve"

RECURSIVE sumTokens(_)
\* chunkReviews.reduce((sum, review) => sum + (review.tokensUsed || 0), 0)
sumTokens(rs) ==
    IF rs = <<>> THEN 0 ELSE OrZero(Head(rs).tokensUsed) + sumTokens(Tail(rs))

\* the text of the combined summary, as the numbers it is formatted from
combinedSummary(rs) ==
    [files  |-> Len(allFileReviews(rs)),
     total  |-> Len(allIssues(rs)),
     high   |-> issueCountsOf(rs).high,
     medium |-> issueCountsOf(rs).medium,
     low    |-> issueCountsOf(rs).low]

\* the object built for a list of chunk results that is not a single result
mergeReviews(rs) ==
    [summary               |-> <<combinedSummary(rs)>>,
     fileReviews           |-> <<allFileReviews(rs)>>,
     overallRecommendation |-> <<recommendationOf(issueCountsOf(rs))>>,
     keyInsights           |-> <<Flatten([k \in 1..Len(rs) |-> OrEmpty(rs[k].keyInsights)])>>,
     issueCounts           |-> issueCountsOf(rs),
     totalTokensUsed       |-> sumTokens(rs)]

\* mutant: a single chunk result is merged like several
combineReviews_noShortcut(rs) == mergeReviews(rs)

combineReviews(rs) == IF Len(rs) = 1 THEN rs[1] ELSE mergeReviews(rs)

\* the severities a model response may give an issue; "info" stands for
\* any value outside the three the reducer counts
Severities == {"high", "medium", "low", "info"}

Recommendations == {"approve", "comment", "request-changes"}

\* the fileReviews a chunk result may carry: none, an empty list, one file
\* without issues, or one file with a run of issues of one severity
FileReviewInputs ==
    { <<>>, << <<>> >>, << << [filename |-> "a.js", issues |-> <<>>] >> >> }
    \cup { << << [filename |-> "a.js",
                  issues |-> << Rep([severity |-> s, line |-> <<7>>], n) >>] >> >> :
             s \in Severities, n \in 1..MaxIssues }

\* the result callOpenAI returns for chunk index idx: the parsed response
\* with tokensUsed and identifier added
ChunkResult(frs, rec, idx) ==
    [summary               |-> <<"summary of the chunk">>,
     fileReviews           |-> frs,
     overallRecommendation |-> <<rec>>,
     keyInsights           |-> IF rec = "approve" THEN <<>>
                               ELSE IF rec = "comment" THEN << <<"insight">> >>
                               ELSE << <<"insight", "risk">> >>,
     tokensUsed            |-> <<IF frs = <<>> THEN 0 ELSE 100>>,
     identifier            |-> idx]

CombineIdle ==
    /\ chunkReviews = <<>>
    /\ combinedReview = <<>>
    /\ combined = FALSE

CombineInit == CombineIdle

\* the list of chunk results grows by the result of the next chunk index
AddChunkReview ==
    /\ ~combined
    /\ Len(chunkReviews) < MaxChunkResults
    /\ \E frs \in FileReviewInputs, rec \in Recommendations :
          chunkReviews' = Append(chunkReviews, ChunkResult(frs, rec, Len(chunkReviews)))
    /\ UNCHANGED <<combinedReview, combined, outsideCombine>>

CombineReviewsCall ==
    /\ ~combined
    /\ combinedReview' = combineReviews(chunkReviews)
    /\ combined' = TRUE
    /\ UNCHANGED <<chunkReviews, outsideCombine>>

(***************************************************************************)
(* retryWithBackoff                                                        *)
(***************************************************************************)
RECURSIVE Pow2(_)
\* Math.pow(2, n) for a natural number n
Pow2(n) == IF n = 0 THEN 1 ELSE 2 * Pow2(n - 1)

\* mutant: the helper gives up one attempt early
retryExhausted_early(att, maxAtt) == att >= maxAtt - 1

\* attempt === maxAttempts: the failed attempt was the last one
retryExhausted(att, maxAtt) == att = maxAtt

\* mutant: the delay grows by baseDelay with every attempt
retryDelayOf_linear(base, att) == base * att

\* baseDelay * Math.pow(2, attempt - 1)
retryDelayOf(base, att) == base * Pow2(att - 1)

\* mutant: the last error is wrapped in a new error before it is thrown
retryRaise_wrapped(err) ==
    IF err = <<>> THEN <<>>
    ELSE <<[message |-> "retries exhausted", attempt |-> err[1].attempt]>>

\* throw lastError
retryRaise(err) == err

\* the messages of the errors fn may fail with
ErrorMessages == {"timeout", "refused"}

\* the values fn may return
FnValues == {"value"}

\* the base delays of a call, in milliseconds (1000 is the default)
BaseDelays == {0, 250, 1000}

RetryIdle ==
    /\ maxAttempts = 0
    /\ baseDelay = 0
    /\ attempt = 0
    /\ retryPc = "idle"
    /\ lastError = <<>>
    /\ fnCalls = 0
    /\ fnErrors = <<>>
    /\ fnValue = <<>>
    /\ delays = <<>>
    /\ retryResult = <<>>
    /\ retryThrown = <<>>

\* the call has been made with its arguments; lastError is declared
RetryInit ==
    /\ maxAttempts \in 0..MaxAttempts
    /\ baseDelay \in BaseDelays
    /\ attempt = 1
    /\ retryPc = "loop"
    /\ lastError = <<>>
    /\ fnCalls = 0
    /\ fnErrors = <<>>
    /\ fnValue = <<>>
    /\ delays = <<>>
    /\ retryResult = <<>>
    /\ retryThrown = <<>>

\* the loop test attempt <= maxAttempts: fn is called, or the loop is left
\* and lastError is thrown
RetryLoopTest ==
    /\ retryPc = "loop"
    /\ IF attempt <= maxAttempts
       THEN /\ retryPc' = "call"
            /\ fnCalls' = fnCalls + 1
            /\ UNCHANGED retryThrown
       ELSE /\ retryPc' = "thrown"
            /\ retryThrown' = retryRaise(lastError)
            /\ UNCHANGED fnCalls
    /\ UNCHANGED outsideRetry
    /\ UNCHANGED <<maxAttempts, baseDelay, attempt, lastError, fnErrors,
                   fnValue, delays, retryResult>>

\* await fn() fulfils: its value is returned
RetryFnSucceeds ==
    /\ retryPc = "call"
    /\ \E v \in FnValues :
          /\ fnValue' = <<v>>
          /\ retryResult' = <<v>>
    /\ retryPc' = "returned"
    /\ UNCHANGED outsideRetry
    /\ UNCHANGED <<maxAttempts, baseDelay, attempt, lastError, fnCalls,
                   fnErrors, delays, retryThrown>>

\* await fn() rejects: the error is kept; after the last attempt the loop
\* is left and lastError thrown, otherwise the delay is started
RetryFnFails ==
    /\ retryPc = "call"
    /\ \E m \in ErrorMessages :
          LET error == [message |-> m, attempt |-> attempt]
          IN  /\ lastError' = <<error>>
              /\ fnErrors' = Append(fnErrors, error)
              /\ IF retryExhausted(attempt, maxAttempts)
                 THEN /\ retryPc' = "thrown"
                      /\ retryThrown' = retryRaise(<<error>>)
                      /\ UNCHANGED delays
                 ELSE /\ retryPc' = "delay"
                      /\ delays' = Append(delays, retryDelayOf(baseDelay, attempt))
                      /\ UNCHANGED retryThrown
    /\ UNCHANGED outsideRetry
    /\ UNCHANGED <<maxAttempts, baseDelay, attempt, fnCalls, fnValue, retryResult>>

\* the timer of the delay fires: the next iteration begins
RetryDelayElapses ==
    /\ retryPc = "delay"
    /\ attempt' = attempt + 1
    /\ retryPc' = "loop"
    /\ UNCHANGED outsideRetry
    /\ UNCHANGED <<maxAttempts, baseDelay, lastError, fnCalls, fnErrors,
                   fnValue, delays, retryResult, retryThrown>>

RetryNext ==
    \/ RetryLoopTest
    \/ RetryFnSucceeds
    \/ RetryFnFails
    \/ RetryDelayElapses

(***************************************************************************)
(* The review controller: reviewJobs and the records stored in it          *)
(***************************************************************************)
\* the ids generateJobId gives the submissions
JobIds == {"job1", "job2"}

\* a record with none of the fields of a job: what {...undefined} spreads
NoJobFields ==
    [id |-> <<>>, status |-> <<>>, progress |-> <<>>, startTime |-> <<>>,
     currentStep |-> <<>>, lastUpdated |-> <<>>, result |-> <<>>,
     error |-> <<>>, endTime |-> <<>>, feedback |-> <<>>]

\* {...reviewJobs.get(jobId)}
spreadJob(entry) == IF entry = <<>> THEN NoJobFields ELSE entry[1]

\* the record analyzeMergeRequest stores for a new job
newJob(jobId) ==
    [NoJobFields EXCEPT !.id = <<jobId>>, !.status = <<"processing">>,
                        !.progress = <<0>>, !.startTime = <<"date">>]

\* mutant: the record is written without looking whether the job exists
updateJobProgress_noGuard(jobs, jobId, progress, message) ==
    [jobs EXCEPT ![jobId] =
        <<[spreadJob(jobs[jobId]) EXCEPT !.progress = <<progress>>,
                                         !.currentStep = <<message>>,
                                         !.lastUpdated = <<"date">>]>>]

\* updateJobProgress: nothing happens when the job is not in the collection
updateJobProgress(jobs, jobId, progress, message) ==
    IF jobs[jobId] # <<>>
    THEN [jobs EXCEPT ![jobId] =
            <<[jobs[jobId][1] EXCEPT !.progress = <<progress>>,
                                     !.currentStep = <<message>>,
                                     !.lastUpdated = <<"date">>]>>]
    ELSE jobs

\* the error classes of the error handler module: the status passed to the
\* constructor is stored as statusCode
GitLabAPIError(message, statusCode, response) ==
    [name |-> "GitLabAPIError", message |-> message, status |-> <<>>,
     statusCode |-> <<statusCode>>, response |-> <<response>>]

OpenAIAPIError(message, statusCode) ==
    [name |-> "OpenAIAPIError", message |-> message, status |-> <<>>,
     statusCode |-> <<statusCode>>]

RateLimitError(message) ==
    [name |-> "RateLimitError", message |-> message, status |-> <<>>,
     statusCode |-> <<>>]

\* the errors a call of gitlabService may reject with
GitLabFailures ==
    { GitLabAPIError("401 Unauthorized", 401,
                     [message |-> <<"401 Unauthorized">>]),
      GitLabAPIError("403 Forbidden", 403,
                     [message |-> <<"403 Forbidden">>]),
      GitLabAPIError("404 Project Not Found", 404,
                     [message |-> <<"404 Project Not Found">>]),
      RateLimitError("GitLab API rate limit exceeded") }

\* the errors a chat completion call may reject with: an API error with an
\* HTTP status, or the SyntaxError of JSON.parse (no status)
OpenAIFailures ==
    { [name |-> "APIError", message |-> "429 Too Many Requests",
       status |-> <<429>>, statusCode |-> <<>>],
      [name |-> "SyntaxError", message |-> "Unexpected token in JSON",
       status |-> <<>>, statusCode |-> <<>>] }

\* the catch block of generateCodeReview: the error it throws instead
generateCodeReviewError(error) ==
    IF error.status = <<429>>
    THEN RateLimitError("OpenAI API rate limit exceeded")
    ELSE OpenAIAPIError("Failed to generate code review",
                        IF error.status = <<>> THEN 500 ELSE error.status[1])

\* the catch block of processReviewAsync: the message of the error step
errorMessageOf(error) ==
    IF error.status = <<401>> THEN "GitLab authentication failed. Please check: ..."
    ELSE IF error.status = <<404>> THEN "GitLab resource not found. Please check: ..."
    ELSE IF error.status = <<403>> THEN "GitLab access forbidden. ..."
    ELSE error.message

\* mutant: no catch handler is attached to the run, the error step is all
\* that is recorded
failReview_uncaught(jobs, jobId, error) ==
    updateJobProgress(jobs, jobId, 0, <<"Error: ", errorMessageOf(error)>>)

\* a review run fails with error: the catch block of processReviewAsync
\* records the error step, rethrows, and the catch handler attached by
\* analyzeMergeRequest marks the job failed
failReview(jobs, jobId, error) ==
    LET stepped == updateJobProgress(jobs, jobId, 0, <<"Error: ", errorMessageOf(error)>>)
    IN  [stepped EXCEPT ![jobId] =
            <<[spreadJob(stepped[jobId]) EXCEPT !.status = <<"failed">>,
                                                !.error = <<error.message>>,
                                                !.endTime = <<"date">>]>>]

\* {...a, ...b} for two records
SpreadOver(a, b) ==
    [k \in DOMAIN a \cup DOMAIN b |-> IF k \in DOMAIN b THEN b[k] ELSE a[k]]

\* the recommendation heading generateSummaryComment ends the note with
summaryRecommendation(reviewResult) ==
    IF reviewResult.overallRecommendation = <<"approve">> THEN "Recommendation: Approve"
    ELSE IF reviewResult.overallRecommendation = <<"request-changes">>
    THEN "Recommendation: Request Changes"
    ELSE "Recommendation: Comment"

\* the title and author of the merge request under review
mrData == [title |-> "Add feature", author |-> "dev"]

\* the end of the try block of processReviewAsync: progress 100, then the
\* job is marked completed with the result
completeReview(jobs, jobId, reviewResult, commentsPosted) ==
    LET stepped == updateJobProgress(jobs, jobId, 100, <<"Review completed">>)
    IN  [stepped EXCEPT ![jobId] =
            <<[spreadJob(stepped[jobId]) EXCEPT
                  !.status = <<"completed">>,
                  !.result = <<SpreadOver(reviewResult,
                                          [commentsPosted |-> commentsPosted,
                                           mrTitle |-> mrData.title,
                                           mrAuthor |-> mrData.author])>>,
                  !.endTime = <<"date">>]>>]

\* mutant: the feedback replaces the record instead of being added to it
withFeedback_noSpread(job, feedbackData) ==
    [NoJobFields EXCEPT !.feedback = <<feedbackData>>]

\* {...job, feedback: feedbackData}
withFeedback(job, feedbackData) == [job EXCEPT !.feedback = <<feedbackData>>]

\* mutant: the error is attached under a status the jobs never have
getReviewStatus_wrongStatus(jobs, jobId) ==
    LET job == jobs[jobId][1]
    IN  SpreadOver(
            [jobId |-> jobId, status |-> job.status, progress |-> job.progress,
             currentStep |-> job.currentStep, startTime |-> job.startTime,
             lastUpdated |-> job.lastUpdated, endTime |-> job.endTime],
            SpreadOver(
                IF job.status = <<"completed">> THEN [result |-> job.result] ELSE <<>>,
                IF job.status = <<"error">> THEN [error |-> job.error] ELSE <<>>))

\* the body getReviewStatus answers with for a job of the collection
getReviewStatus(jobs, jobId) ==
    LET job == jobs[jobId][1]
    IN  SpreadOver(
            [jobId |-> jobId, status |-> job.status, progress |-> job.progress,
             currentStep |-> job.currentStep, startTime |-> job.startTime,
             lastUpdated |-> job.lastUpdated, endTime |-> job.endTime],
            SpreadOver(
                IF job.status = <<"completed">> THEN [result |-> job.result] ELSE <<>>,
                IF job.status = <<"failed">> THEN [error |-> job.error] ELSE <<>>))

\* the entry of getReviewHistory for a job: the fields of the result are
\* added when the job has a result
historyEntry(job) ==
    SpreadOver(
        [jobId |-> job.id, status |-> job.status, startTime |-> job.startTime,
         endTime |-> job.endTime],
        IF job.result # <<>>
        THEN [summary |-> job.result[1].summary,
              commentsPosted |-> job.result[1].commentsPosted,
              overallRecommendation |-> job.result[1].overallRecommendation]
        ELSE <<>>)

\* the entries getReviewHistory lists (sorted by start time and cut to the
\* requested page, which selects among these)
getReviewHistory(jobs) ==
    {historyEntry(jobs[j][1]) : j \in {i \in JobIds : jobs[i] # <<>>}}

(***************************************************************************)
(* generateCodeReview, postReviewComments and processReviewAsync           *)
(***************************************************************************)
\* the line counts of the files of a merge request: files that share a
\* chunk, or files that each need a chunk of their own
DiffLineKinds == { <<<<>>, <<>>>>, <<<<1100>>, <<0>>>> }

\* the diffs GitLab may answer with
DiffInputs ==
    {[i \in 1..n |-> MkChange(i, pair)] : n \in 0..MaxDiffFiles, pair \in DiffLineKinds}

\* the issues the model may report for one file
IssueInputs ==
    { <<>>, <<[severity |-> "high", line |-> <<7>>, type |-> <<"bug">>]>> }

\* the parsed responses the model may give for a chunk: one file review per
\* file of the chunk, each with the same issues
ModelResponses(chunk) ==
    {[summary               |-> <<"summary of the chunk">>,
      fileReviews           |-> <<[k \in 1..Len(chunk) |->
                                     [filename |-> chunk[k].new_path,
                                      issues   |-> <<issues>>]]>>,
      overallRecommendation |-> <<IF issues = <<>> THEN "approve" ELSE "request-changes">>,
      keyInsights           |-> << <<"insight">> >>] : issues \in IssueInputs}

\* what callOpenAI returns: the parsed response with tokensUsed and the
\* identifier chunk-<index> added
callOpenAIResult(response, index) ==
    SpreadOver(response, [tokensUsed |-> <<100>>, identifier |-> index])

Pending == [state |-> "pending", value |-> <<>>]
Fulfilled(v) == [state |-> "fulfilled", value |-> <<v>>]
Rejected(e) == [state |-> "rejected", value |-> <<e>>]

\* mutant: the batch waits for every call and keeps the results of those
\* that succeeded
promiseAll_dropFailed(promises, order) ==
    IF \E k \in 1..Len(promises) : promises[k].state = "pending"
    THEN Pending
    ELSE Fulfilled(LET ok == SelectSeq(promises, LAMBDA q : q.state = "fulfilled")
                   IN  [k \in 1..Len(ok) |-> ok[k].value[1]])

\* mutant: the results are listed in the order the calls completed
promiseAll_completionOrder(promises, order) ==
    IF \E k \in 1..Len(promises) : promises[k].state = "rejected"
    THEN Rejected(promises[CHOOSE k \in 1..Len(promises) :
                                promises[k].state = "rejected"].value[1])
    ELSE IF \A k \in 1..Len(promises) : promises[k].state = "fulfilled"
    THEN Fulfilled([k \in 1..Len(promises) |-> promises[order[k]].value[1]])
    ELSE Pending

\* Promise.all(reviewPromises), given the promises and the order in which
\* they settled: rejected with the first rejection, fulfilled with the
\* values in index order when all are fulfilled
promiseAll(promises, order) ==
    IF \E k \in 1..Len(promises) : promises[k].state = "rejected"
    THEN Rejected(promises[CHOOSE k \in 1..Len(promises) :
                                promises[k].state = "rejected"].value[1])
    ELSE IF \A k \in 1..Len(promises) : promises[k].state = "fulfilled"
    THEN Fulfilled([k \in 1..Len(promises) |-> promises[k].value[1]])
    ELSE Pending

\* mutant: the severity of an issue is not looked at
issueNotesOf_anySeverity(fileReview) ==
    LET issues == OrEmpty(fileReview.issues)
        wanted == SelectSeq(issues,
                      LAMBDA issue : /\ issue.line # <<>>
                                     /\ issue.line # <<0>>
                                     /\ issue.type # <<>>)
    IN  [k \in 1..Len(wanted) |->
            [filename |-> fileReview.filename, line |-> wanted[k].line[1]]]

\* the notes of one file review that postReviewComments posts: an issue
\* with a line and a severity other than 'low' (an issue without a type
\* throws inside the inner try and is skipped)
issueNotesOf(fileReview) ==
    LET issues == OrEmpty(fileReview.issues)
        wanted == SelectSeq(issues,
                      LAMBDA issue : /\ issue.line # <<>>
                                     /\ issue.line # <<0>>
                                     /\ issue.severity # "low"
                                     /\ issue.type # <<>>)
    IN  [k \in 1..Len(wanted) |->
            [filename |-> fileReview.filename, line |-> wanted[k].line[1]]]

\* the per-issue notes of a review result, in the order they are posted
notesToPost(reviewResult) ==
    LET frs == OrEmpty(reviewResult.fileReviews)
    IN  Flatten([k \in 1..Len(frs) |-> issueNotesOf(frs[k])])

\* the locals of a job's processReviewAsync before it is called; rejected
\* remembers the index of the chunk call that failed, if one did
NoFlow ==
    [pc |-> "none", diffs |-> <<>>, commits |-> "none", chunks |-> <<>>,
     promises |-> <<>>, order |-> <<>>, rejected |-> <<>>, chunkReviews |-> <<>>,
     reviewResult |-> <<>>, toPost |-> <<>>, posted |-> 0]

\* the flow has ended: its locals are gone
ended(fl) ==
    [NoFlow EXCEPT !.pc = "done", !.rejected = fl.rejected,
                   !.order = IF fl.rejected # <<>> THEN fl.order ELSE <<>>]

\* postReviewComments no longer reads the locals of generateCodeReview
posting(fl) ==
    [NoFlow EXCEPT !.pc = fl.pc, !.reviewResult = fl.reviewResult,
                   !.toPost = fl.toPost, !.posted = fl.posted]

JobsInit ==
    /\ reviewJobs = [j \in JobIds |-> <<>>]
    /\ flow = [j \in JobIds |-> NoFlow]
    /\ notes = [j \in JobIds |-> <<>>]

JobsIdle == JobsInit

\* the body of analyzeMergeRequest for the job id j generateJobId returns:
\* the job is stored and processReviewAsync runs up to its first await
\* (progress 10, getMergeRequest issued)
analyzeMergeRequest(j) ==
    /\ flow[j].pc = "none"
    /\ reviewJobs[j] = <<>>
    /\ reviewJobs' = updateJobProgress([reviewJobs EXCEPT ![j] = <<newJob(j)>>], j, 10,
                                       <<"Fetching merge request details...">>)
    /\ flow' = [flow EXCEPT ![j].pc = "getMR"]

\* mutant: the handler awaits the merge request before it answers
AnalyzeMergeRequest_awaitsFetch(j) ==
    /\ flow[j].pc = "none"
    /\ reviewJobs[j] = <<>>
    /\ reviewJobs' = updateJobProgress([reviewJobs EXCEPT ![j] = <<newJob(j)>>], j, 25,
                                       <<"Fetching diffs and commits...">>)
    /\ flow' = [flow EXCEPT ![j].pc = "getDiffs", ![j].commits = "pending"]
    /\ UNCHANGED <<notes, outsideJobs>>

\* analyzeMergeRequest: the job is stored and processReviewAsync runs up
\* to its first await (progress 10, getMergeRequest issued); the caller is
\* answered 202
AnalyzeMergeRequest(j) ==
    /\ analyzeMergeRequest(j)
    /\ UNCHANGED <<notes, outsideJobs>>

\* getMergeRequest fulfils: progress 25, the diffs and the commits are
\* requested together
GetMergeRequestFulfils(j) ==
    /\ flow[j].pc = "getMR"
    /\ reviewJobs' = updateJobProgress(reviewJobs, j, 25, <<"Fetching diffs and commits...">>)
    /\ flow' = [flow EXCEPT ![j].pc = "getDiffs", ![j].commits = "pending"]
    /\ UNCHANGED <<notes, outsideJobs>>

\* a GitLab call of the fetching steps rejects: the run fails
GitLabFetchRejects(j) ==
    /\ flow[j].pc \in {"getMR", "getDiffs"}
    /\ \E error \in GitLabFailures :
          reviewJobs' = failReview(reviewJobs, j, error)
    /\ flow' = [flow EXCEPT ![j] = ended(flow[j])]
    /\ UNCHANGED <<notes, outsideJobs>>

\* the locals once the batch of chunk calls is fulfilled with chunkRevs:
\* the reviews are combined and the summary note is requested
enterPosting(fl, chunkRevs) ==
    [fl EXCEPT !.pc = "postSummary",
               !.chunkReviews = <<chunkRevs>>,
               !.reviewResult = <<combineReviews(chunkRevs)>>]

\* mutant: the batch of no model call is never fulfilled
enterReview_emptyBatchPending(fl, diffsData) ==
    [fl EXCEPT !.pc = "review", !.chunks = chunkChanges(diffsData),
               !.promises = [k \in 1..Len(chunkChanges(diffsData)) |-> Pending]]

\* the locals once diffs and commits are there: the changes are chunked
\* and one model call per chunk is issued; with no chunk the empty batch
\* is fulfilled at once
enterReview(fl, diffsData) ==
    LET cs == chunkChanges(diffsData)
        started == [fl EXCEPT !.pc = "review", !.chunks = cs,
                              !.promises = [k \in 1..Len(cs) |-> Pending]]
    IN  IF promiseAll(started.promises, <<>>).state = "fulfilled"
        THEN enterPosting(started, promiseAll(started.promises, <<>>).value[1])
        ELSE started

\* the job collection after the steps the flow went through to reach fl
\* from the end of the fetching
steppedTo(jobs, j, fl) ==
    LET at50 == updateJobProgress(jobs, j, 50, <<"Analyzing code with AI...">>)
    IN  IF fl.pc = "postSummary"
        THEN updateJobProgress(at50, j, 80, <<"Posting review comments...">>)
        ELSE at50

\* getMergeRequestDiffs fulfils; when the commits are there too, the
\* review starts
GetDiffsFulfils(j) ==
    /\ flow[j].pc = "getDiffs"
    /\ flow[j].diffs = <<>>
    /\ \E diffsData \in DiffInputs :
          LET got == [flow[j] EXCEPT !.diffs = <<diffsData>>]
              next == IF got.commits = "ok" THEN enterReview(got, diffsData) ELSE got
          IN  /\ flow' = [flow EXCEPT ![j] = next]
              /\ reviewJobs' = IF got.commits = "ok"
                               THEN steppedTo(reviewJobs, j, next)
                               ELSE reviewJobs
    /\ UNCHANGED <<notes, outsideJobs>>

\* getMergeRequestCommits fulfils; when the diffs are there too, the
\* review starts
GetCommitsFulfils(j) ==
    /\ flow[j].pc = "getDiffs"
    /\ flow[j].commits = "pending"
    /\ LET got == [flow[j] EXCEPT !.commits = "ok"]
           next == IF got.diffs # <<>> THEN enterReview(got, got.diffs[1]) ELSE got
       IN  /\ flow' = [flow EXCEPT ![j] = next]
           /\ reviewJobs' = IF got.diffs # <<>>
                            THEN steppedTo(reviewJobs, j, next)
                            ELSE reviewJobs
    /\ UNCHANGED <<notes, outsideJobs>>

\* the model call of chunk k settles with outcome; the batch is then
\* fulfilled (the review is combined, progress 80, the summary note is
\* requested), rejected (the run fails) or still pending
chunkCallSettles(j, k, outcome) ==
    LET settled == [flow[j] EXCEPT
                       !.promises[k] = outcome,
                       !.order = Append(@, k),
                       !.rejected = IF outcome.state = "rejected" THEN <<k>> ELSE @]
        batch == promiseAll(settled.promises, settled.order)
    IN  CASE batch.state = "fulfilled" ->
                /\ flow' = [flow EXCEPT ![j] = enterPosting(settled, batch.value[1])]
                /\ reviewJobs' = updateJobProgress(reviewJobs, j, 80,
                                                   <<"Posting review comments...">>)
          [] batch.state = "rejected" ->
                /\ flow' = [flow EXCEPT ![j] = ended(settled)]
                /\ reviewJobs' = failReview(reviewJobs, j,
                                            generateCodeReviewError(batch.value[1]))
          [] OTHER ->
                /\ flow' = [flow EXCEPT ![j] = settled]
                /\ UNCHANGED reviewJobs

\* callOpenAI of chunk k returns a parsed response
ChunkCallFulfils(j) ==
    /\ flow[j].pc = "review"
    /\ \E k \in 1..Len(flow[j].promises) :
          /\ flow[j].promises[k].state = "pending"
          /\ \E response \in ModelResponses(flow[j].chunks[k]) :
                chunkCallSettles(j, k, Fulfilled(callOpenAIResult(response, k - 1)))
    /\ UNCHANGED <<notes, outsideJobs>>

\* callOpenAI of chunk k throws: the API call failed or its content is not
\* JSON
ChunkCallRejects(j) ==
    /\ flow[j].pc = "review"
    /\ \E k \in 1..Len(flow[j].promises) :
          /\ flow[j].promises[k].state = "pending"
          /\ \E error \in OpenAIFailures :
                chunkCallSettles(j, k, Rejected(error))
    /\ UNCHANGED <<notes, outsideJobs>>

\* postReviewComments goes on with the per-issue notes left: the next one
\* is requested, or the run completes with the count of posted comments
continuePosting(j, fl) ==
    IF fl.toPost = <<>>
    THEN /\ flow' = [flow EXCEPT ![j] = ended(fl)]
         /\ reviewJobs' = completeReview(reviewJobs, j, fl.reviewResult[1], fl.posted)
    ELSE /\ flow' = [flow EXCEPT ![j] = posting([fl EXCEPT !.pc = "postIssue"])]
         /\ UNCHANGED reviewJobs

\* the summary note is posted
PostSummaryFulfils(j) ==
    /\ flow[j].pc = "postSummary"
    /\ notes' = [notes EXCEPT ![j] = Append(@, [kind |-> "summary"])]
    /\ continuePosting(j, [flow[j] EXCEPT !.posted = 1,
                                          !.toPost = notesToPost(flow[j].reviewResult[1])])
    /\ UNCHANGED outsideJobs

\* posting the summary note fails: postReviewComments rethrows and the run
\* fails
PostSummaryRejects(j) ==
    /\ flow[j].pc = "postSummary"
    /\ \E error \in GitLabFailures :
          reviewJobs' = failReview(reviewJobs, j, error)
    /\ flow' = [flow EXCEPT ![j] = ended(flow[j])]
    /\ UNCHANGED <<notes, outsideJobs>>

\* the note of the next issue is posted
PostIssueFulfils(j) ==
    /\ flow[j].pc = "postIssue"
    /\ notes' = [notes EXCEPT ![j] =
                    Append(@, [kind |-> "issue",
                               filename |-> Head(flow[j].toPost).filename,
                               line |-> Head(flow[j].toPost).line])]
    /\ continuePosting(j, [flow[j] EXCEPT !.posted = @ + 1, !.toPost = Tail(@)])
    /\ UNCHANGED outsideJobs

\* mutant: the failure of the post of an issue note is rethrown
PostIssueRejects_rethrown(j) ==
    /\ flow[j].pc = "postIssue"
    /\ \E error \in GitLabFailures :
          reviewJobs' = failReview(reviewJobs, j, error)
    /\ flow' = [flow EXCEPT ![j] = ended(flow[j])]
    /\ UNCHANGED <<notes, outsideJobs>>

\* posting the note of the next issue fails: the failure is logged and the
\* loop goes on
PostIssueRejects(j) ==
    /\ flow[j].pc = "postIssue"
    /\ continuePosting(j, [flow[j] EXCEPT !.toPost = Tail(@)])
    /\ UNCHANGED <<notes, outsideJobs>>

\* the ratings a feedback may carry
Ratings == {5}

\* provideFeedback: the feedback is added to the job's record; an unknown
\* id is answered with NotFoundError and nothing is stored
ProvideFeedback(j) ==
    /\ \E rating \in Ratings :
          reviewJobs' =
              IF reviewJobs[j] = <<>> THEN reviewJobs
              ELSE [reviewJobs EXCEPT ![j] =
                      <<withFeedback(reviewJobs[j][1],
                                     [reviewId |-> j, rating |-> rating])>>]
    /\ UNCHANGED <<flow, notes, outsideJobs>>

JobsNext ==
    \E j \in JobIds :
        \/ AnalyzeMergeRequest(j)
        \/ GetMergeRequestFulfils(j)
        \/ GitLabFetchRejects(j)
        \/ GetDiffsFulfils(j)
        \/ GetCommitsFulfils(j)
        \/ ChunkCallFulfils(j)
        \/ ChunkCallRejects(j)
        \/ PostSummaryFulfils(j)
        \/ PostSummaryRejects(j)
        \/ PostIssueFulfils(j)
        \/ PostIssueRejects(j)
        \/ ProvideFeedback(j)

(***************************************************************************)
(* postReviewComments called on a review result                            *)
(***************************************************************************)
\* the issues a file review may list, each on a line of its own: with or
\* without a line, of each severity, with or without a type
IssueKinds ==
    << [severity |-> "high",   line |-> <<7>>, type |-> <<"bug">>],
       [severity |-> "medium", line |-> <<9>>, type |-> <<"style">>],
       [severity |-> "low",    line |-> <<3>>, type |-> <<"style">>],
       [severity |-> "high",   line |-> <<>>,  type |-> <<"security">>],
       [severity |-> "info",   line |-> <<4>>, type |-> <<"bug">>],
       [severity |-> "high",   line |-> <<5>>, type |-> <<>>] >>

\* the lists of issues of one file: up to MaxPostIssues of the kinds
IssueLists ==
    {SelectSeq(IssueKinds, LAMBDA issue : issue \in picked) :
        picked \in {S \in SUBSET {IssueKinds[k] : k \in 1..Len(IssueKinds)} :
                        Cardinality(S) <= MaxPostIssues}}

\* the fileReviews of a review result: none, or the reviews of one or two
\* files
PostFileReviews ==
    { <<>>, << <<>> >> }
    \cup {<< <<[filename |-> 1, issues |-> <<a>>]>> >> : a \in IssueLists}
    \cup {<< <<[filename |-> 1, issues |-> <<a>>],
               [filename |-> 2, issues |-> <<b>>]>> >> : a, b \in IssueLists}

\* the review result generateCodeReview returned for a single chunk
PostReviewResult(frs) ==
    [summary               |-> <<"summary of the chunk">>,
     fileReviews           |-> frs,
     overallRecommendation |-> <<"comment">>,
     keyInsights           |-> << <<"insight">> >>,
     tokensUsed            |-> <<100>>,
     identifier            |-> 0]

\* job j has reached the posting step with a review result: progress 80,
\* postReviewComments requests the summary note
PostInit ==
    /\ \E frs \in PostFileReviews :
          flow = [j \in JobIds |->
                    IF j = "job1"
                    THEN [NoFlow EXCEPT !.pc = "postSummary",
                                        !.reviewResult = <<PostReviewResult(frs)>>]
                    ELSE NoFlow]
    /\ reviewJobs = updateJobProgress(
                        [j \in JobIds |-> IF j = "job1" THEN <<newJob(j)>> ELSE <<>>],
                        "job1", 80, <<"Posting review comments...">>)
    /\ notes = [j \in JobIds |-> <<>>]

PostNext ==
    \/ PostSummaryFulfils("job1")
    \/ PostSummaryRejects("job1")
    \/ PostIssueFulfils("job1")
    \/ PostIssueRejects("job1")

(***************************************************************************)
(* GitLabService.executeWithRetry                                          *)
(***************************************************************************)
retryAttempts == 3
retryDelay == 1000

\* the requests makeAPICall sends through executeWithRetry: a GET of the
\* fetching steps, or the POST that creates a note on the merge request
Requests == {"getMergeRequest", "postMergeRequestNote"}

\* the statuses of the error responses of the GitLab server
ErrorStatuses == {400, 404, 429, 500, 503}

\* the payloads of an error response: an object with a message, or one
\* without (such as {error: ...})
ErrorPayloads ==
    { [message |-> <<"server said no">>, error |-> <<>>],
      [message |-> <<>>, error |-> <<"invalid_request">>] }

\* the retry-after header of a response when it carries one, in seconds
RetryAfterHeaders == {<<>>, <<2>>}

\* the rejection of axios for a response with an error status
ResponseError(status, data, retryAfter) ==
    [message  |-> "Request failed with status code",
     response |-> <<[status |-> status, data |-> data,
                     headers |-> [retryAfter |-> retryAfter]]>>]

\* the rejection of axios when no response arrived (timeout, network)
NoResponseError(message) == [message |-> message, response |-> <<>>]

\* the rejections of one attempt
AttemptFailures ==
    {ResponseError(status, data, <<>>) :
        status \in ErrorStatuses, data \in ErrorPayloads}
    \cup {ResponseError(429, data, hdr) :
            data \in ErrorPayloads, hdr \in RetryAfterHeaders}
    \cup {NoResponseError("timeout of 30000ms exceeded")}

\* `GitLab API error: ${status}`
apiErrorText(status) ==
    CASE status = 400 -> "GitLab API error: 400"
      [] status = 404 -> "GitLab API error: 404"
      [] status = 429 -> "GitLab API error: 429"
      [] status = 500 -> "GitLab API error: 500"
      [] status = 503 -> "GitLab API error: 503"

\* what the catch block does with the rejection of attempt att
Throw(error) == [kind |-> "throw", error |-> error, ms |-> 0]
Delay(ms) == [kind |-> "delay", error |-> <<>>, ms |-> ms]

\* error.response.headers['retry-after'] || this.retryDelay
retryAfterOf(error) ==
    IF error.response[1].headers.retryAfter # <<>>
    THEN error.response[1].headers.retryAfter[1]
    ELSE retryDelay

\* mutant: every error status is retried while attempts are left
onErrorResponse_retryClientErrors(error, att) ==
    LET status == error.response[1].status
        data == error.response[1].data
    IN  IF status = 429
        THEN IF att = retryAttempts
             THEN Throw(RateLimitError("GitLab API rate limit exceeded"))
             ELSE Delay(retryAfterOf(error) * 1000)
        ELSE IF status >= 400 /\ att < retryAttempts
        THEN Delay(retryDelay * att)
        ELSE Throw(GitLabAPIError(IF data.message # <<>> THEN data.message[1]
                                  ELSE apiErrorText(status),
                                  status, data))

\* mutant: a 429 on any attempt raises RateLimitError at once
onErrorResponse_noRateLimitRetry(error, att) ==
    LET status == error.response[1].status
        data == error.response[1].data
    IN  IF status = 429
        THEN Throw(RateLimitError("GitLab API rate limit exceeded"))
        ELSE IF status >= 500 /\ att < retryAttempts
        THEN Delay(retryDelay * att)
        ELSE Throw(GitLabAPIError(IF data.message # <<>> THEN data.message[1]
                                  ELSE apiErrorText(status),
                                  status, data))

\* mutant: the wait after a server error does not grow with the attempt
onErrorResponse_flatDelay(error, att) ==
    LET status == error.response[1].status
        data == error.response[1].data
    IN  IF status = 429
        THEN IF att = retryAttempts
             THEN Throw(RateLimitError("GitLab API rate limit exceeded"))
             ELSE Delay(retryAfterOf(error) * 1000)
        ELSE IF status >= 500 /\ att < retryAttempts
        THEN Delay(retryDelay)
        ELSE Throw(GitLabAPIError(IF data.message # <<>> THEN data.message[1]
                                  ELSE apiErrorText(status),
                                  status, data))

\* the catch block for a rejection that carries a response
onErrorResponse(error, att) ==
    LET status == error.response[1].status
        data == error.response[1].data
        retryAfter == retryAfterOf(error)
    IN  IF status = 429
        THEN IF att = retryAttempts
             THEN Throw(RateLimitError("GitLab API rate limit exceeded"))
             ELSE Delay(retryAfter * 1000)
        ELSE IF status >= 500 /\ att < retryAttempts
        THEN Delay(retryDelay * att)
        ELSE Throw(GitLabAPIError(IF data.message # <<>> THEN data.message[1]
                                  ELSE apiErrorText(status),
                                  status, data))

\* mutant: a rejection without a response is never raised, the loop runs out
onNoResponse_neverRaised(error, att) ==
    Delay(retryDelay * att)

\* the catch block for a rejection without a response
onNoResponse(error, att) ==
    IF att = retryAttempts
    THEN Throw(GitLabAPIError("GitLab API call failed", 500, error.message))
    ELSE Delay(retryDelay * att)

\* the catch block of executeWithRetry
onError(error, att) ==
    IF error.response # <<>> THEN onErrorResponse(error, att)
    ELSE onNoResponse(error, att)

\* the data of a successful response
ResponseData == {[id |-> 1]}

ExecIdle ==
    /\ execRequest = "none"
    /\ execAttempt = 0
    /\ execPc = "idle"
    /\ execErrors = <<>>
    /\ execDelays = <<>>
    /\ execResult = <<>>
    /\ execThrown = <<>>
    /\ execServed = 0

\* the call has been made: the loop starts with attempt = 1
ExecInit ==
    /\ execRequest \in Requests
    /\ execAttempt = 1
    /\ execPc = "loop"
    /\ execErrors = <<>>
    /\ execDelays = <<>>
    /\ execResult = <<>>
    /\ execThrown = <<>>
    /\ execServed = 0

\* the loop test attempt <= retryAttempts: apiCall() is issued, or the loop
\* is left and the function returns undefined
ExecLoopTest ==
    /\ execPc = "loop"
    /\ execPc' = IF execAttempt <= retryAttempts THEN "call" ELSE "returned"
    /\ UNCHANGED <<execRequest, execAttempt, execErrors, execDelays, execResult,
                   execThrown, execServed, outsideExec>>

\* the server carries out a request that creates a note once more; a GET
\* changes nothing on the server
served(request, count) ==
    IF request = "postMergeRequestNote" THEN count + 1 ELSE count

\* await apiCall() fulfils: response.data is returned
ExecCallFulfils ==
    /\ execPc = "call"
    /\ \E data \in ResponseData : execResult' = <<data>>
    /\ execServed' = served(execRequest, execServed)
    /\ execPc' = "returned"
    /\ UNCHANGED <<execRequest, execAttempt, execErrors, execDelays, execThrown,
                   outsideExec>>

\* await apiCall() rejects: the catch block throws or starts a delay. A
\* request that got a 5xx response or no response at all may have been
\* carried out by the server all the same; one refused with a 4xx was not
ExecCallRejects ==
    /\ execPc = "call"
    /\ \E error \in AttemptFailures :
          LET step == onError(error, execAttempt)
              lost == \/ error.response = <<>>
                      \/ error.response[1].status >= 500
          IN  /\ execErrors' = Append(execErrors, error)
              /\ \E carriedOut \in {FALSE, lost} :
                    execServed' = IF carriedOut
                                  THEN served(execRequest, execServed)
                                  ELSE execServed
              /\ IF step.kind = "throw"
                 THEN /\ execPc' = "thrown"
                      /\ execThrown' = <<step.error>>
                      /\ UNCHANGED execDelays
                 ELSE /\ execPc' = "delay"
                      /\ execDelays' = Append(execDelays, step.ms)
                      /\ UNCHANGED execThrown
    /\ UNCHANGED <<execRequest, execAttempt, execResult, outsideExec>>

\* the timer of the delay fires: attempt++ and the loop test comes next
ExecDelayElapses ==
    /\ execPc = "delay"
    /\ execAttempt' = execAttempt + 1
    /\ execPc' = "loop"
    /\ UNCHANGED <<execRequest, execErrors, execDelays, execResult, execThrown,
                   execServed, outsideExec>>

ExecNext ==
    \/ ExecLoopTest
    \/ ExecCallFulfils
    \/ ExecCallRejects
    \/ ExecDelayElapses

(***************************************************************************)
(* The periodic sweep: cleanupOldJobs and startPeriodicCleanup.  Times are *)
(* milliseconds, as the values of Date are.                                *)
(***************************************************************************)
\* 24 * 60 * 60 * 1000, the milliseconds of one day
msPerDay == 24 * 60 * 60 * 1000

\* the clock advances in steps of half a day
msPerTick == 12 * 60 * 60 * 1000

\* the retention windows startPeriodicCleanup is started with (default 7)
RetentionDays == {0, 1, 7}

\* new Date(Date.now() - retentionDays * 24 * 60 * 60 * 1000)
cutoffDate(clock, days) == clock - days * msPerDay

\* mutant: a job started exactly at the cutoff is removed as well
isOld_inclusive(job, cutoff) ==
    job.startTime # <<>> /\ job.startTime[1] <= cutoff

\* job.startTime < cutoffDate; the comparison with an undefined start time
\* is false
isOld(job, cutoff) ==
    job.startTime # <<>> /\ job.startTime[1] < cutoff

\* cleanupOldJobs(reviewJobs, retentionDays) at time clock: the collection
\* after the loop and the count returned
cleanupOldJobs(jobs, clock, days) ==
    LET cutoff == cutoffDate(clock, days)
        old == {j \in DOMAIN jobs : jobs[j] # <<>> /\ isOld(jobs[j][1], cutoff)}
    IN  [jobs         |-> [j \in DOMAIN jobs |-> IF j \in old THEN <<>> ELSE jobs[j]],
         cleanedCount |-> Cardinality(old)]

SweepIdle == now = 0 /\ retentionDays = 0 /\ cleaned = <<>>

\* startPeriodicCleanup(reviewJobs, retentionDays) on an empty collection
SweepInit ==
    /\ now = 0
    /\ retentionDays \in RetentionDays
    /\ cleaned = <<>>
    /\ JobsInit

\* half a day passes
SweepTick ==
    /\ now < MaxHalfDays * msPerTick
    /\ now' = now + msPerTick
    /\ UNCHANGED <<retentionDays, cleaned, reviewJobs, outsideSweep>>

\* a job is stored with startTime: new Date()
SweepJobStored(j) ==
    /\ reviewJobs[j] = <<>>
    /\ reviewJobs' = [reviewJobs EXCEPT ![j] =
                         <<[newJob(j) EXCEPT !.startTime = <<now>>]>>]
    /\ UNCHANGED <<sweepVars, outsideSweep>>

\* the review of a stored job ends, completed or failed
SweepJobEnds(j) ==
    /\ reviewJobs[j] # <<>>
    /\ reviewJobs[j][1].status = <<"processing">>
    /\ \/ reviewJobs' = completeReview(reviewJobs, j, PostReviewResult(<< <<>> >>), 1)
       \/ \E error \in GitLabFailures :
             reviewJobs' = failReview(reviewJobs, j, error)
    /\ UNCHANGED <<sweepVars, outsideSweep>>

\* the cron callback of startPeriodicCleanup runs cleanupOldJobs
CleanupOldJobs ==
    /\ Len(cleaned) < MaxSweeps
    /\ LET swept == cleanupOldJobs(reviewJobs, now, retentionDays)
       IN  /\ reviewJobs' = swept.jobs
           /\ cleaned' = Append(cleaned, swept.cleanedCount)
    /\ UNCHANGED <<now, retentionDays, outsideSweep>>

SweepNext ==
    \/ SweepTick
    \/ \E j \in JobIds : SweepJobStored(j)
    \/ \E j \in JobIds : SweepJobEnds(j)
    \/ CleanupOldJobs

(***************************************************************************)
(* POST /api/review/analyze: authenticateGitLabToken, validateMRUrl and    *)
(* analyzeMergeRequest in this order.  A URL is the sequence of the pieces *)
(* between its slashes, so "https://host/g/p" is <<"https:", "", "host",   *)
(* "g", "p">> and the empty string is <<"">>.                              *)
(***************************************************************************)
\* the values of the PRIVATE-TOKEN header: absent, empty, a token
Tokens == {<<>>, <<"">>, <<"glpat-token">>}

UrlSchemes == {"https:", "http:", "ftp:"}
PathSegs == {"group", ""}
UrlPaths == SeqsUpTo(PathSegs, MaxPathSegs)
UrlMarkers == {<<"-", "merge_requests">>, <<"merge_requests">>}
\* pieces made of decimal digits only, with the number parseInt gives
DigitPieces == {"123"}
UrlIds == DigitPieces \cup {"12a", ""}

\* the values of mrUrl in the body: undefined, the empty string, a URL
MrUrls ==
    {<<>>, << <<"">> >>} \cup
    { << <<scheme, "", "gitlab.example.com">> \o path \o marker \o <<id>> >> :
        scheme \in UrlSchemes, path \in UrlPaths, marker \in UrlMarkers,
        id \in UrlIds }

\* parseInt(piece, 10) of a piece of digits
parseInt(piece) == IF piece = "123" THEN 123 ELSE 0

\* !gitlabToken: the header is absent or empty
noToken(token) == token = <<>> \/ token[1] = ""

\* !mrUrl: the field is absent or the empty string
noMrUrl(mrUrl) == mrUrl = <<>> \/ mrUrl[1] = <<"">>

\* mutant: the marker "-" before merge_requests is not required
gitlabMRPattern_noDash(url) ==
    /\ Len(url) >= 7
    /\ url[1] \in {"http:", "https:"}
    /\ url[2] = ""
    /\ \A i \in 3..(Len(url) - 3) : url[i] # ""
    /\ url[Len(url) - 1] = "merge_requests"
    /\ url[Len(url)] \in DigitPieces

\* /^https?:\/\/[^/]+\/[^/]+(?:\/[^/]+)*\/-\/merge_requests\/\d+$/ : a scheme,
\* an empty piece, a host and at least one more piece, none of them empty,
\* then "-", "merge_requests" and a piece of digits at the end
gitlabMRPattern(url) ==
    /\ Len(url) >= 7
    /\ url[1] \in {"http:", "https:"}
    /\ url[2] = ""
    /\ \A i \in 3..(Len(url) - 3) : url[i] # ""
    /\ url[Len(url) - 2] = "-"
    /\ url[Len(url) - 1] = "merge_requests"
    /\ url[Len(url)] \in DigitPieces

\* req.mrDetails of a URL the pattern accepts
mrDetailsOf(url) ==
    [baseUrl     |-> SubSeq(url, 1, 3),
     projectPath |-> SubSeq(url, 4, Len(url) - 3),
     mrIid       |-> parseInt(url[Len(url)]),
     fullUrl     |-> url]

\* a request: the PRIVATE-TOKEN header and the mrUrl of the body
Request(token, mrUrl) ==
    [token |-> token, mrUrl |-> mrUrl, gitlabToken |-> <<>>, mrDetails |-> <<>>]

\* res.status(status).json({code, ...})
Response(status, code) == [status |-> status, code |-> code]

\* mutant: the URL is validated before the token is looked at
answerOf_urlFirst(request) ==
    IF noMrUrl(request.mrUrl) THEN <<Response(400, "MR_URL_MISSING")>>
    ELSE IF ~gitlabMRPattern(request.mrUrl[1])
         THEN <<Response(400, "INVALID_MR_URL")>>
    ELSE IF noToken(request.token) THEN <<Response(401, "TOKEN_MISSING")>>
    ELSE <<>>

\* the answer of the middleware chain, <<>> when both call next()
answerOf(request) ==
    IF noToken(request.token) THEN <<Response(401, "TOKEN_MISSING")>>
    ELSE IF noMrUrl(request.mrUrl) THEN <<Response(400, "MR_URL_MISSING")>>
    ELSE IF ~gitlabMRPattern(request.mrUrl[1])
         THEN <<Response(400, "INVALID_MR_URL")>>
    ELSE <<>>

RouteIdle == req = <<>> /\ res = <<>>

RouteInit == RouteIdle /\ JobsInit

\* a request the middleware chain answers: no handler runs after it
PostAnalyzeRejected ==
    /\ \E token \in Tokens, mrUrl \in MrUrls :
          LET request == Request(token, mrUrl)
          IN  /\ answerOf(request) # <<>>
              /\ req' = <<[request EXCEPT
                              !.gitlabToken =
                                  IF noToken(token) THEN <<>> ELSE token]>>
              /\ res' = answerOf(request)
    /\ UNCHANGED <<reviewJobs, flow, outsideRoute>>

\* a request that reaches analyzeMergeRequest: the job is stored under the
\* id j, the review starts and the caller is answered 202
PostAnalyzeAccepted(j) ==
    /\ \E token \in Tokens, mrUrl \in MrUrls :
          LET request == Request(token, mrUrl)
          IN  /\ answerOf(request) = <<>>
              /\ req' = <<[request EXCEPT
                              !.gitlabToken = token,
                              !.mrDetails = <<mrDetailsOf(mrUrl[1])>>]>>
    /\ analyzeMergeRequest(j)
    /\ res' = <<Response(202, "")>>
    /\ UNCHANGED outsideRoute

RouteNext ==
    \/ PostAnalyzeRejected
    \/ \E j \in JobIds : PostAnalyzeAccepted(j)

(***************************************************************************)
(* The requests of generateCodeReview: prepareMRContext and                *)
(* buildReviewPrompt.  A prompt is the record of the values its text is    *)
(* formatted from.                                                         *)
(***************************************************************************)
RECURSIVE totalAdditions(_)
\* changes.reduce((sum, file) => sum + (file.additions || 0), 0)
totalAdditions(cs) ==
    IF cs = <<>> THEN 0 ELSE OrZero(Head(cs).additions) + totalAdditions(Tail(cs))

RECURSIVE totalDeletions(_)
\* changes.reduce((sum, file) => sum + (file.deletions || 0), 0)
totalDeletions(cs) ==
    IF cs = <<>> THEN 0 ELSE OrZero(Head(cs).deletions) + totalDeletions(Tail(cs))

\* seq.slice(0, n)
sliceTo(seq, n) == SubSeq(seq, 1, IF Len(seq) < n THEN Len(seq) ELSE n)

\* prepareMRContext(mrData, changes, commits)
prepareMRContext(mr, cs, cms) ==
    [title                |-> mr.title,
     author               |-> mr.author,
     changedFiles         |-> Len(cs),
     totalAdditions       |-> totalAdditions(cs),
     totalDeletions       |-> totalDeletions(cs),
     commitCount          |-> Len(cms),
     recentCommitMessages |-> [i \in 1..Len(sliceTo(cms, 5)) |-> cms[i].message]]

\* buildReviewPrompt(context, changes, chunkIndex, totalChunks): the line
\* "Reviewing chunk i of n" is there when totalChunks > 1, and the commit
\* messages are recentCommitMessages.slice(0, 3)
buildReviewPrompt(context, chunk, chunkIndex, totalChunks) ==
    [title          |-> context.title,
     author         |-> context.author,
     changedFiles   |-> context.changedFiles,
     totalAdditions |-> context.totalAdditions,
     totalDeletions |-> context.totalDeletions,
     chunkOf        |-> IF totalChunks > 1
                        THEN <<[index |-> chunkIndex + 1, total |-> totalChunks]>>
                        ELSE <<>>,
     commitMessages |-> sliceTo(context.recentCommitMessages, 3),
     files          |-> [i \in 1..Len(chunk) |-> chunk[i].new_path]]

\* the prompts generateCodeReview builds, one per chunk, indices from 0
reviewPrompts(mr, cs, cms) ==
    LET context == prepareMRContext(mr, cs, cms)
        cks == chunkChanges(cs)
    IN  [k \in 1..Len(cks) |-> buildReviewPrompt(context, cks[k], k - 1, Len(cks))]

PromptIdle == commits = <<>> /\ prompts = <<>>

PromptInit == PromptIdle /\ ChunkIdle

\* the list of file changes grows by a run of n files of equal line counts
AddPromptChanges ==
    /\ ~chunked
    /\ nRuns < MaxPromptRuns
    /\ \E pair \in LineKinds, n \in {1, 11} :
          changes' = changes \o [i \in 1..n |-> MkChange(Len(changes) + i, pair)]
    /\ nRuns' = nRuns + 1
    /\ UNCHANGED <<chunks, chunked, commits, prompts, combineVars, retryVars,
                   jobVars, execVars, sweepVars, routeVars>>

\* the list of commits grows by a commit; a message is named by its position
AddCommit ==
    /\ ~chunked
    /\ Len(commits) < MaxCommits
    /\ commits' = Append(commits, [message |-> Len(commits) + 1])
    /\ UNCHANGED <<chunkVars, prompts, combineVars, retryVars, jobVars, execVars,
                   sweepVars, routeVars>>

\* generateCodeReview up to the calls of callOpenAI: the context is
\* prepared, the changes are chunked and one prompt is built per chunk
BuildReviewPrompts ==
    /\ ~chunked
    /\ chunks' = chunkChanges(changes)
    /\ prompts' = reviewPrompts(mrData, changes, commits)
    /\ chunked' = TRUE
    /\ UNCHANGED <<changes, nRuns, commits, combineVars, retryVars, jobVars,
                   execVars, sweepVars, routeVars>>

PromptNext ==
    \/ AddPromptChanges
    \/ AddCommit
    \/ BuildReviewPrompts

OthersIdle == SweepIdle /\ RouteIdle /\ PromptIdle

(***************************************************************************)
(* Specification of the chunker: a list of file changes is put together    *)
(* and chunkChanges is called on it.                                       *)
(***************************************************************************)
SpecChunkInit == ChunkInit /\ CombineIdle /\ RetryIdle /\ JobsIdle /\ ExecIdle /\ OthersIdle
SpecChunkNext == AddChanges \/ ChunkChangesCall
SpecChunk == SpecChunkInit /\ [][SpecChunkNext]_vars

\* the total of added and removed lines of a chunk
RECURSIVE SumLines(_)
SumLines(chunk) ==
    IF chunk = <<>> THEN 0 ELSE fileLines(Head(chunk)) + SumLines(Tail(chunk))

\* C1: the chunks returned by chunkChanges, concatenated in order, are
\* exactly the input list: no file is lost, duplicated or reordered.
C1_ConcatIsInput == chunked => Flatten(chunks) = changes

\* a call that produced several chunks, one of them with several files
C1_Witness ==
    /\ chunked
    /\ Len(chunks) >= 3
    /\ \E k \in 1..Len(chunks) : Len(chunks[k]) >= 2

\* C2: every chunk is non-empty, has at most maxFilesPerChunk files and at
\* most maxLinesPerChunk lines unless it is a single file; a file whose own
\* line count exceeds maxLinesPerChunk is the only member of its chunk.
C2_ChunkBounds ==
    chunked =>
        /\ \A k \in 1..Len(chunks) :
              /\ Len(chunks[k]) >= 1
              /\ Len(chunks[k]) <= maxFilesPerChunk
              /\ SumLines(chunks[k]) <= maxLinesPerChunk \/ Len(chunks[k]) = 1
        /\ \A i \in 1..Len(changes) :
              fileLines(changes[i]) > maxLinesPerChunk =>
                  \E k \in 1..Len(chunks) : chunks[k] = <<changes[i]>>

\* a call with an oversized file between other files, and a full chunk
C2_Witness ==
    /\ chunked
    /\ \E i \in 2..(Len(changes) - 1) : fileLines(changes[i]) > maxLinesPerChunk
    /\ \E k \in 1..Len(chunks) : Len(chunks[k]) = maxFilesPerChunk

\* the line counts of the files of a list
linesOf(cs) == [i \in 1..Len(cs) |-> fileLines(cs[i])]

\* C26: a chunk is closed before a file exactly when it is not empty and
\* holds maxFilesPerChunk files or its lines plus the file's lines exceed
\* maxLinesPerChunk: every chunk is non-empty, the first file of every
\* chunk but the first did not fit into the chunk before it, every other
\* file fitted behind the files before it in its chunk, the chunks are
\* those of every call on the same list, and an empty list gives no chunk;
\* files of 500 and 600 lines give two chunks and 15 files of one line
\* give chunks of 10 and 5 files.
C26_BoundariesAreForced ==
    chunked =>
        /\ \A k \in 1..Len(chunks) : Len(chunks[k]) >= 1
        /\ \A k \in 2..Len(chunks) :
              \/ Len(chunks[k - 1]) = maxFilesPerChunk
              \/ SumLines(chunks[k - 1]) + fileLines(chunks[k][1]) > maxLinesPerChunk
        /\ \A k \in 1..Len(chunks) : \A i \in 2..Len(chunks[k]) :
              /\ i - 1 < maxFilesPerChunk
              /\ SumLines(SubSeq(chunks[k], 1, i)) <= maxLinesPerChunk
        /\ chunks = chunkChanges(changes)
        /\ changes = <<>> => chunks = <<>>
        /\ linesOf(changes) = <<500, 600>> => Len(chunks) = 2
        /\ linesOf(changes) = [i \in 1..15 |-> 1] =>
              (Len(chunks) = 2 /\ Len(chunks[1]) = 10 /\ Len(chunks[2]) = 5)

\* 15 files of one line each were chunked into 10 and 5
C26_Witness ==
    /\ chunked
    /\ linesOf(changes) = [i \in 1..15 |-> 1]
    /\ Len(chunks) = 2
    /\ Len(chunks[1]) = 10
    /\ Len(chunks[2]) = 5

(***************************************************************************)
(* Specification of the reducer: a list of chunk results is put together   *)
(* and combineReviews is called on it.                                     *)
(***************************************************************************)
SpecCombineInit == CombineInit /\ ChunkIdle /\ RetryIdle /\ JobsIdle /\ ExecIdle /\ OthersIdle
SpecCombineNext == AddChunkReview \/ CombineReviewsCall
SpecCombine == SpecCombineInit /\ [][SpecCombineNext]_vars

\* C3: combineReviews of a list holding exactly one chunk result returns
\* that result unchanged: the same fields with the same values, with no
\* issueCounts and no totalTokensUsed, and the chunk's own recommendation.
C3_SingleIsIdentity ==
    (combined /\ Len(chunkReviews) = 1) =>
        /\ combinedReview = chunkReviews[1]
        /\ DOMAIN combinedReview = DOMAIN chunkReviews[1]
        /\ "issueCounts" \notin DOMAIN combinedReview
        /\ "totalTokensUsed" \notin DOMAIN combinedReview
        /\ combinedReview.overallRecommendation
              = chunkReviews[1].overallRecommendation

\* a single chunk result whose own recommendation differs from the one the
\* severity counts would give
C3_Witness ==
    /\ combined
    /\ Len(chunkReviews) = 1
    /\ chunkReviews[1].overallRecommendation = <<"approve">>
    /\ \E i \in 1..Len(allIssues(chunkReviews)) :
          allIssues(chunkReviews)[i].severity = "high"

\* the positions (chunk, file, issue) of the issues of severity sev
IssuePositions(rs, sev) ==
    {p \in UNION {UNION {{<<c, f, i>> :
                            i \in 1..Len(OrEmpty(OrEmpty(rs[c].fileReviews)[f].issues))} :
                         f \in 1..Len(OrEmpty(rs[c].fileReviews))} :
                  c \in 1..Len(rs)} :
        OrEmpty(OrEmpty(rs[p[1]].fileReviews)[p[2]].issues)[p[3]].severity = sev}

\* C4: for two or more chunk results the combined recommendation is
\* 'request-changes' when some issue of some chunk is high; otherwise
\* 'comment' when more than 2 are medium or more than 5 are low; otherwise
\* 'approve'; the chunks' own recommendations play no part.
C4_RecommendationFromCounts ==
    (combined /\ Len(chunkReviews) >= 2) =>
        LET h == Cardinality(IssuePositions(chunkReviews, "high"))
            m == Cardinality(IssuePositions(chunkReviews, "medium"))
            l == Cardinality(IssuePositions(chunkReviews, "low"))
        IN  combinedReview.overallRecommendation =
                << IF h > 0 THEN "request-changes"
                   ELSE IF m > 2 \/ l > 5 THEN "comment"
                   ELSE "approve" >>

\* two chunks that both recommend approval and report six low issues
\* between them: the combined recommendation is 'comment'
C4_Witness ==
    /\ combined
    /\ Len(chunkReviews) = 2
    /\ \A k \in 1..2 : chunkReviews[k].overallRecommendation = <<"approve">>
    /\ Cardinality(IssuePositions(chunkReviews, "low")) = 6
    /\ combinedReview.overallRecommendation = <<"comment">>

RECURSIVE lengthBefore(_, _)
\* the number of entries of the first k - 1 lists of lists
lengthBefore(lists, k) ==
    IF k <= 1 THEN 0 ELSE lengthBefore(lists, k - 1) + Len(lists[k - 1])

\* out holds the entries of every list of lists, list after list, each
\* list's entries in their order, and nothing else
isConcatenation(lists, out) ==
    /\ Len(out) = lengthBefore(lists, Len(lists) + 1)
    /\ \A k \in 1..Len(lists) : \A i \in 1..Len(lists[k]) :
          out[lengthBefore(lists, k) + i] = lists[k][i]

\* C24: for two or more chunk results the combined fileReviews is the
\* chunks' fileReviews one after the other in chunk order, and the combined
\* keyInsights is the chunks' keyInsights one after the other in chunk
\* order with every entry kept, an entry of two chunks appearing twice.
C24_ConcatenatedInChunkOrder ==
    (combined /\ Len(chunkReviews) >= 2) =>
        /\ isConcatenation([k \in 1..Len(chunkReviews) |->
                                OrEmpty(chunkReviews[k].fileReviews)],
                           combinedReview.fileReviews[1])
        /\ isConcatenation([k \in 1..Len(chunkReviews) |->
                                OrEmpty(chunkReviews[k].keyInsights)],
                           combinedReview.keyInsights[1])

\* two chunks with different file reviews that both report "insight", the
\* first one another insight after it: the combined list has "insight"
\* twice, around the other one
C24_Witness ==
    /\ combined
    /\ Len(chunkReviews) = 2
    /\ chunkReviews[1].keyInsights = << <<"insight", "risk">> >>
    /\ chunkReviews[2].keyInsights = << <<"insight">> >>
    /\ combinedReview.keyInsights = << <<"insight", "risk", "insight">> >>
    /\ chunkReviews[1].fileReviews # <<>>
    /\ chunkReviews[2].fileReviews # <<>>
    /\ chunkReviews[1].fileReviews # chunkReviews[2].fileReviews
    /\ Len(combinedReview.fileReviews[1]) = 2

RECURSIVE tokensOfFirst(_, _)
\* the tokens used by the first n chunk results, none counting as 0
tokensOfFirst(rs, n) ==
    IF n = 0 THEN 0
    ELSE tokensOfFirst(rs, n - 1)
            + (IF rs[n].tokensUsed = <<>> THEN 0 ELSE rs[n].tokensUsed[1])

\* C25: for two or more chunk results issueCounts.high, .medium and .low
\* are the numbers of issues of that severity over all files of all chunks,
\* and totalTokensUsed is the sum of the chunks' tokensUsed.
C25_CountsAndTokensAreTotals ==
    (combined /\ Len(chunkReviews) >= 2) =>
        /\ combinedReview.issueCounts =
              [high   |-> Cardinality(IssuePositions(chunkReviews, "high")),
               medium |-> Cardinality(IssuePositions(chunkReviews, "medium")),
               low    |-> Cardinality(IssuePositions(chunkReviews, "low"))]
        /\ combinedReview.totalTokensUsed =
              tokensOfFirst(chunkReviews, Len(chunkReviews))

\* two chunks with two medium issues and three low ones between them, each
\* with 100 tokens used
C25_Witness ==
    /\ combined
    /\ Len(chunkReviews) = 2
    /\ combinedReview.issueCounts = [high |-> 0, medium |-> 2, low |-> 3]
    /\ combinedReview.totalTokensUsed = 200

\* C38: in every combined review of several chunks the total issue count
\* the summary states is the sum of the three severity counts, whatever
\* severities the issues of the chunk results carry.
C38_TotalIsSumOfCounts ==
    (combined /\ Len(chunkReviews) >= 2) =>
        combinedReview.summary[1].total =
            combinedReview.issueCounts.high + combinedReview.issueCounts.medium
                + combinedReview.issueCounts.low

\* C17: a chunk result built from a model response without fileReviews
\* never enters a combined review: the request has failed instead.
C17_MalformedNeverCombined ==
    combined => \A k \in 1..Len(chunkReviews) : chunkReviews[k].fileReviews # <<>>

(***************************************************************************)
(* Specification of the retry helper: one call of retryWithBackoff, fn     *)
(* succeeding or failing at each attempt.                                  *)
(***************************************************************************)
SpecRetryInit == RetryInit /\ ChunkIdle /\ CombineIdle /\ JobsIdle /\ ExecIdle /\ OthersIdle
SpecRetryNext == RetryNext
SpecRetry == SpecRetryInit /\ [][SpecRetryNext]_vars

\* C5: when fn fails k times and then succeeds, with k < maxAttempts, the
\* call returns fn's value after exactly k+1 calls of fn and exactly k
\* delays (none after the successful attempt); the helper does not give up
\* while fewer than maxAttempts attempts have failed.
C5_SuccessAfterFailures ==
    /\ retryPc = "returned" =>
          /\ retryResult = fnValue
          /\ retryResult # <<>>
          /\ Len(fnErrors) < maxAttempts
          /\ fnCalls = Len(fnErrors) + 1
          /\ Len(delays) = Len(fnErrors)
    /\ (retryPc = "thrown" /\ maxAttempts >= 1) => Len(fnErrors) >= maxAttempts
    /\ retryPc = "call" => Len(delays) = Len(fnErrors)

\* fn failed twice and succeeded at the third attempt of three
C5_Witness ==
    /\ retryPc = "returned"
    /\ maxAttempts = 3
    /\ Len(fnErrors) = 2
    /\ Len(delays) = 2

\* C6: when fn always fails (maxAttempts >= 1), fn is called exactly
\* maxAttempts times, maxAttempts - 1 delays are performed (none after the
\* last attempt) and the error thrown is the last attempt's error itself.
C6_ExhaustedRaisesLast ==
    (retryPc = "thrown" /\ maxAttempts >= 1) =>
        /\ fnCalls = maxAttempts
        /\ Len(fnErrors) = maxAttempts
        /\ Len(delays) = maxAttempts - 1
        /\ retryThrown = <<fnErrors[Len(fnErrors)]>>

\* three attempts failed, the last with another error than the first
C6_Witness ==
    /\ retryPc = "thrown"
    /\ maxAttempts = 3
    /\ Len(fnErrors) = 3
    /\ fnErrors[1].message # fnErrors[3].message

\* the wait after the first failed attempt is baseDelay and every later
\* wait is twice the wait before it, which is baseDelay * 2^(n-1) for the
\* wait after failed attempt n
waitsDouble ==
    /\ Len(delays) <= Len(fnErrors)
    /\ \A n \in 1..Len(delays) :
          /\ fnErrors[n].attempt = n
          /\ delays[n] = IF n = 1 THEN baseDelay ELSE 2 * delays[n - 1]

\* C30 as stated: when a call has ended, the wait between failed attempt n
\* and attempt n+1 was baseDelay * 2^(n-1), the waits of the call are
\* strictly increasing, and their number does not exceed maxAttempts - 1.
C30_WaitsDoubleAndAreFew ==
    retryPc \in {"returned", "thrown"} =>
        /\ waitsDouble
        /\ \A n \in 2..Len(delays) : delays[n] > delays[n - 1]
        /\ Len(delays) <= maxAttempts - 1

\* C30, amended: the wait between failed attempt n and attempt n+1 is
\* baseDelay * 2^(n-1); the waits of one call are strictly increasing
\* when baseDelay is positive and all 0 when it is 0; their number never
\* exceeds maxAttempts - 1 when maxAttempts is at least 1, and no wait is
\* made when maxAttempts is 0.
C30_WaitsDoublePerFailure ==
    /\ waitsDouble
    /\ baseDelay > 0 => \A n \in 2..Len(delays) : delays[n] > delays[n - 1]
    /\ baseDelay = 0 => \A n \in 1..Len(delays) : delays[n] = 0
    /\ maxAttempts >= 1 => Len(delays) <= maxAttempts - 1
    /\ maxAttempts = 0 => delays = <<>>

\* three failed attempts of four with a base delay of 250 ms: waits of
\* 250, 500 and 1000 ms
C30_Witness ==
    /\ maxAttempts = 4
    /\ baseDelay = 250
    /\ delays = <<250, 500, 1000>>
    /\ Len(fnErrors) = 3

(***************************************************************************)
(* Specification of the review controller: submissions, the steps of each  *)
(* job's processReviewAsync with its remote calls settling in any order,   *)
(* and feedback submissions.                                               *)
(***************************************************************************)
Init == JobsInit /\ ChunkIdle /\ CombineIdle /\ RetryIdle /\ ExecIdle /\ OthersIdle
Next == JobsNext
Spec == Init /\ [][Next]_vars

\* C7: a combined review exists only when every chunk call of the run was
\* fulfilled, and it is built from one result per chunk; once a chunk call
\* has failed the run has ended in failure with no combined review, no
\* result on the job and no note posted.
C7_BatchAllOrNothing ==
    \A j \in JobIds :
        /\ flow[j].reviewResult # <<>> => flow[j].rejected = <<>>
        /\ flow[j].pc = "postSummary" =>
              /\ \A k \in 1..Len(flow[j].promises) :
                    flow[j].promises[k].state = "fulfilled"
              /\ flow[j].chunkReviews # <<>>
              /\ Len(flow[j].chunkReviews[1]) = Len(flow[j].chunks)
              /\ \A k \in 1..Len(flow[j].chunks) :
                    flow[j].chunkReviews[1][k] = flow[j].promises[k].value[1]
        /\ flow[j].rejected # <<>> =>
              /\ flow[j].pc = "done"
              /\ flow[j].reviewResult = <<>>
              /\ reviewJobs[j] # <<>>
              /\ reviewJobs[j][1].status = <<"failed">>
              /\ reviewJobs[j][1].result = <<>>
              /\ notes[j] = <<>>

\* a run whose second chunk call failed after the first had settled
C7_Witness ==
    \E j \in JobIds :
        /\ flow[j].rejected = <<2>>
        /\ flow[j].order = <<1, 2>>
        /\ reviewJobs[j][1].status = <<"failed">>

\* C8: the chunk results handed to combineReviews are in chunk index order
\* whatever the order in which the calls completed: result k is the one of
\* chunk k and reviews the files of chunk k, and the file reviews of the
\* combined review follow the order of the files.
C8_ResultsInIndexOrder ==
    \A j \in JobIds :
        flow[j].chunkReviews # <<>> =>
            LET rs == flow[j].chunkReviews[1]
                frs == OrEmpty(flow[j].reviewResult[1].fileReviews)
            IN  /\ \A k \in 1..Len(rs) :
                      /\ rs[k].identifier = k - 1
                      /\ \A f \in 1..Len(OrEmpty(rs[k].fileReviews)) :
                            OrEmpty(rs[k].fileReviews)[f].filename
                                = flow[j].chunks[k][f].new_path
                /\ \A a, b \in 1..Len(frs) :
                      a < b => frs[a].filename < frs[b].filename

\* the call of the second chunk completed before the call of the first
C8_Witness ==
    \E j \in JobIds :
        /\ flow[j].pc = "postSummary"
        /\ flow[j].order = <<2, 1>>
        /\ Len(flow[j].chunkReviews[1]) = 2

\* the status of a job id: "absent" when it is not in the collection
statusOf(jobs, j) ==
    IF jobs[j] = <<>> THEN "absent"
    ELSE IF jobs[j][1].status = <<>> THEN "undefined"
    ELSE jobs[j][1].status[1]

\* C9: in every step the status of a job stays what it is, or goes from
\* 'processing' to 'completed' or from 'processing' to 'failed' (or the
\* job is created as 'processing'); a 'completed' or 'failed' job keeps its
\* status under every later operation.
C9_StatusTransitions ==
    [][\A j \in JobIds :
          \/ statusOf(reviewJobs', j) = statusOf(reviewJobs, j)
          \/ <<statusOf(reviewJobs, j), statusOf(reviewJobs', j)>> \in
                { <<"absent", "processing">>,
                  <<"processing", "completed">>,
                  <<"processing", "failed">> }]_vars

\* a completed job and a failed job that both received feedback
C9_Witness ==
    \E j, i \in JobIds :
        /\ statusOf(reviewJobs, j) = "completed"
        /\ reviewJobs[j][1].feedback # <<>>
        /\ statusOf(reviewJobs, i) = "failed"
        /\ reviewJobs[i][1].feedback # <<>>

\* C10: for a failed job the status query answers status 'failed' with an
\* error string and without a result, and the job's history entry carries
\* no field of a review result.
C10_FailedExposesNoResult ==
    \A j \in JobIds :
        statusOf(reviewJobs, j) = "failed" =>
            LET response == getReviewStatus(reviewJobs, j)
            IN  /\ response.status = <<"failed">>
                /\ "error" \in DOMAIN response
                /\ response.error # <<>>
                /\ response.error[1] \in STRING
                /\ "result" \notin DOMAIN response
                /\ \A entry \in getReviewHistory(reviewJobs) :
                      entry.jobId = <<j>> =>
                          DOMAIN entry \cap {"summary", "commentsPosted",
                                             "overallRecommendation"} = {}

\* a job failed by the review step beside a completed job whose result the
\* queries expose
C10_Witness ==
    \E j, i \in JobIds :
        /\ statusOf(reviewJobs, j) = "failed"
        /\ reviewJobs[j][1].error = <<"Failed to generate code review">>
        /\ statusOf(reviewJobs, i) = "completed"
        /\ "result" \in DOMAIN getReviewStatus(reviewJobs, i)

\* C11: a note is added to a merge request only by a posting step of a run
\* whose chunk calls were all fulfilled and whose results are combined; a
\* run with a failed chunk call has no note, now or later, and its job is
\* 'failed'.
C11_PostingAllOrNothing ==
    [][\A j \in JobIds :
          /\ notes'[j] # notes[j] =>
                /\ flow[j].pc \in {"postSummary", "postIssue"}
                /\ flow[j].reviewResult # <<>>
                /\ flow[j].rejected = <<>>
                /\ Len(notes'[j]) = Len(notes[j]) + 1
          /\ flow'[j].pc \in {"postSummary", "postIssue"} =>
                /\ flow'[j].reviewResult # <<>>
                /\ flow'[j].rejected = <<>>
          /\ flow'[j].rejected # <<>> =>
                /\ notes'[j] = <<>>
                /\ statusOf(reviewJobs', j) = "failed"
          /\ flow[j].rejected # <<>> => flow'[j].rejected = flow[j].rejected]_vars

\* the second chunk's call succeeded and then the first chunk's call
\* failed: the run has no note, while the other job's run has posted notes
C11_Witness ==
    \E j, i \in JobIds :
        /\ flow[j].rejected = <<1>>
        /\ flow[j].order = <<2, 1>>
        /\ notes[j] = <<>>
        /\ statusOf(reviewJobs, j) = "failed"
        /\ Len(notes[i]) >= 2

\* the number of times the model call of chunk k of job j's run settled
settledCalls(j, k) ==
    Cardinality({i \in 1..Len(flow[j].order) : flow[j].order[i] = k})

\* C18: a run is failed by the rate-limit failure of a chunk's model call
\* only after that call has been attempted retryAttempts times.
C18_ModelCallRetried ==
    \A j \in JobIds :
        (/\ flow[j].rejected # <<>>
         /\ reviewJobs[j][1].error = <<"OpenAI API rate limit exceeded">>) =>
            settledCalls(j, flow[j].rejected[1]) = retryAttempts

ProgressUpdates ==
    { <<0, <<"Error: ", "timeout">>>>, <<50, <<"Analyzing code with AI...">>>>,
      <<100, <<"Review completed">>>> }

\* C20: updateJobProgress for an id that is not in the collection returns
\* the collection as it is: no entry for the id, every other entry the
\* same.
C20_AbsentJobUntouched ==
    \A j \in JobIds, u \in ProgressUpdates :
        reviewJobs[j] = <<>> =>
            LET after == updateJobProgress(reviewJobs, j, u[1], u[2])
            IN  /\ after[j] = <<>>
                /\ \A i \in JobIds : after[i] = reviewJobs[i]
                /\ DOMAIN after = JobIds

\* one id is not in the collection while the job of the other id is being
\* processed, and an update of that job does change it
C20_Witness ==
    \E j, i \in JobIds :
        /\ reviewJobs[j] = <<>>
        /\ statusOf(reviewJobs, i) = "processing"
        /\ reviewJobs[i][1].progress = <<50>>
        /\ updateJobProgress(reviewJobs, i, 100, <<"Review completed">>) # reviewJobs

(***************************************************************************)
(* Specification of the GitLab executor: one call of executeWithRetry, the *)
(* request succeeding or failing at each attempt.                          *)
(***************************************************************************)
SpecExecInit == ExecInit /\ ChunkIdle /\ CombineIdle /\ RetryIdle /\ JobsIdle /\ OthersIdle
SpecExecNext == ExecNext
SpecExec == SpecExecInit /\ [][SpecExecNext]_vars

\* the status of the response of a failed attempt; 0 when no response came
statusOfFailure(error) ==
    IF error.response = <<>> THEN 0 ELSE error.response[1].status

\* C12: the call that posts the summary note of a review run creates at
\* most one note on the merge request, and exactly one when it succeeds,
\* also when executeWithRetry makes several attempts.
C12_OneSummaryNote ==
    execRequest = "postMergeRequestNote" =>
        /\ execServed <= 1
        /\ execPc = "returned" => execServed = 1

\* C14: a failed attempt whose response has a 4xx status other than 429 is
\* the last attempt of the call: the call has thrown, no delay follows the
\* attempt, and the error thrown is a GitLabAPIError with that status and
\* the payload of that response.
C14_ClientErrorNotRetried ==
    \A n \in 1..Len(execErrors) :
        LET status == statusOfFailure(execErrors[n])
        IN  (status >= 400 /\ status < 500 /\ status # 429) =>
                /\ n = Len(execErrors)
                /\ execAttempt = n
                /\ execPc = "thrown"
                /\ Len(execDelays) = n - 1
                /\ execThrown # <<>>
                /\ execThrown[1].name = "GitLabAPIError"
                /\ execThrown[1].statusCode = <<status>>
                /\ execThrown[1].response = <<execErrors[n].response[1].data>>

\* a 404 at the second attempt, after a server error at the first
C14_Witness ==
    /\ Len(execErrors) = 2
    /\ statusOfFailure(execErrors[1]) = 500
    /\ statusOfFailure(execErrors[2]) = 404
    /\ execPc = "thrown"
    /\ execThrown[1].message = "GitLab API error: 404"

\* C15: every failed attempt, a 429 included, uses up one attempt; a 429 at
\* an attempt before the last is followed by a delay and not by an error;
\* the call throws RateLimitError exactly when attempt retryAttempts got a
\* 429.
C15_RateLimitedOnLast429 ==
    /\ execPc \in {"loop", "call"} => execAttempt = Len(execErrors) + 1
    /\ execPc \in {"delay", "thrown"} => execAttempt = Len(execErrors)
    /\ Len(execErrors) <= retryAttempts
    /\ \A n \in 1..Len(execErrors) :
          (statusOfFailure(execErrors[n]) = 429 /\ n < retryAttempts) =>
              /\ Len(execDelays) >= n
              /\ n = Len(execErrors) => execPc # "thrown"
    /\ execPc = "thrown" =>
          (execThrown[1].name = "RateLimitError"
              <=> /\ Len(execErrors) = retryAttempts
                  /\ statusOfFailure(execErrors[retryAttempts]) = 429)

\* two attempts failed for other reasons and the last one got a 429
C15_Witness ==
    /\ execPc = "thrown"
    /\ execThrown[1].name = "RateLimitError"
    /\ Len(execErrors) = retryAttempts
    /\ statusOfFailure(execErrors[1]) = 503
    /\ statusOfFailure(execErrors[2]) = 0

\* C16: a 5xx response at attempt n < retryAttempts is followed by a delay
\* of retryDelay * n and no error; a 5xx response at attempt retryAttempts
\* makes the call throw a GitLabAPIError with the status and the payload of
\* that response, and an error thrown for a 5xx is thrown only then.
C16_ServerErrorRetried ==
    /\ \A n \in 1..Len(execErrors) :
          statusOfFailure(execErrors[n]) >= 500 =>
              IF n < retryAttempts
              THEN /\ Len(execDelays) >= n
                   /\ execDelays[n] = retryDelay * n
                   /\ n = Len(execErrors) => execPc # "thrown"
              ELSE /\ execPc = "thrown"
                   /\ execThrown[1].name = "GitLabAPIError"
                   /\ execThrown[1].statusCode = <<statusOfFailure(execErrors[n])>>
                   /\ execThrown[1].response = <<execErrors[n].response[1].data>>
    /\ (execPc = "thrown" /\ statusOfFailure(execErrors[Len(execErrors)]) >= 500) =>
          Len(execErrors) = retryAttempts

\* three server errors with different payloads: the error thrown carries
\* the payload of the third
C16_Witness ==
    /\ execPc = "thrown"
    /\ Len(execErrors) = retryAttempts
    /\ \A n \in 1..retryAttempts : statusOfFailure(execErrors[n]) >= 500
    /\ execErrors[1].response[1].data # execErrors[3].response[1].data
    /\ execDelays = <<retryDelay, 2 * retryDelay>>

\* C28: a 429 response at an attempt before the last is followed by a wait
\* of the delay the response hints at (Retry-After, in seconds) when it
\* carries one, and of retryDelay (1000 ms) when it carries none.
C28_RateLimitWait ==
    \A n \in 1..Len(execErrors) :
        (statusOfFailure(execErrors[n]) = 429 /\ n < retryAttempts
            /\ Len(execDelays) >= n) =>
           LET hint == execErrors[n].response[1].headers.retryAfter
           IN  execDelays[n] = IF hint # <<>> THEN hint[1] * 1000 ELSE retryDelay

\* C29: an attempt n that fails without a response is followed, when it is
\* not the last, by a wait of retryDelay * 2^(n-1) and another attempt;
\* when it is the last, the call throws the error of that attempt itself,
\* not wrapped in another error.
C29_NoResponseBackoff ==
    \A n \in 1..Len(execErrors) :
        statusOfFailure(execErrors[n]) = 0 =>
            IF n < retryAttempts
            THEN /\ Len(execDelays) >= n => execDelays[n] = retryDelay * Pow2(n - 1)
                 /\ n = Len(execErrors) => execPc # "thrown"
            ELSE /\ execPc = "thrown"
                 /\ execThrown = <<execErrors[n]>>

(***************************************************************************)
(* Specification of the posting step: postReviewComments of one job on a   *)
(* review result, each post succeeding or failing.                         *)
(***************************************************************************)
SpecPostInit == PostInit /\ ChunkIdle /\ CombineIdle /\ RetryIdle /\ ExecIdle /\ OthersIdle
SpecPostNext == PostNext
SpecPost == SpecPostInit /\ [][SpecPostNext]_vars

RECURSIVE IsSubSeq(_, _)
\* a is b with some elements left out
IsSubSeq(a, b) ==
    IF a = <<>> THEN TRUE
    ELSE IF b = <<>> THEN FALSE
    ELSE IF Head(a) = Head(b) THEN IsSubSeq(Tail(a), Tail(b))
    ELSE IsSubSeq(a, Tail(b))

\* the (file, line) of the per-issue notes posted for job j, in order
issueNotesPosted(j) ==
    LET posted == SelectSeq(notes[j], LAMBDA note : note.kind = "issue")
    IN  [k \in 1..Len(posted) |->
            [filename |-> posted[k].filename, line |-> posted[k].line]]

\* the (file, line) of the issues of a review result that satisfy wanted,
\* in the order of the result
issuesWhere(reviewResult, wanted(_)) ==
    LET frs == OrEmpty(reviewResult.fileReviews)
    IN  Flatten([f \in 1..Len(frs) |->
            LET sel == SelectSeq(OrEmpty(frs[f].issues), wanted)
            IN  [k \in 1..Len(sel) |->
                    [filename |-> frs[f].filename,
                     line |-> IF sel[k].line = <<>> THEN 0 ELSE sel[k].line[1]]]])

\* the issue is not of low severity and has a line
notLowWithLine(issue) == issue.severity # "low" /\ issue.line # <<>>

\* C13 as claimed: when the run has completed, the per-issue notes are one
\* note for every issue that is not of low severity and has a line, and no
\* other note.
C13_OneNotePerIssue ==
    \A j \in JobIds :
        statusOf(reviewJobs, j) = "completed" =>
            issueNotesPosted(j) = issuesWhere(reviewJobs[j][1].result[1], notLowWithLine)

\* the issue is not of low severity and has a line and a type
notLowWithLineAndType(issue) == notLowWithLine(issue) /\ issue.type # <<>>

\* C13 amended: a per-issue note is posted only for an issue that is not of
\* low severity and has a line and a type, at most one per issue and in
\* the order of the review; while the notes are being posted every such
\* issue not yet reached is still to be posted; a completed run counts one
\* comment for the summary and one for each per-issue note.
C13_NotesOnlyForEligibleIssues ==
    \A j \in JobIds :
        /\ flow[j].pc = "postSummary" => notes[j] = <<>>
        /\ flow[j].pc = "postIssue" =>
              LET eligible == issuesWhere(flow[j].reviewResult[1], notLowWithLineAndType)
              IN  \E k \in 0..(Len(eligible) - 1) :
                      /\ flow[j].toPost = SubSeq(eligible, k + 1, Len(eligible))
                      /\ IsSubSeq(issueNotesPosted(j), SubSeq(eligible, 1, k))
        /\ statusOf(reviewJobs, j) = "completed" =>
              LET result == reviewJobs[j][1].result[1]
              IN  /\ IsSubSeq(issueNotesPosted(j),
                              issuesWhere(result, notLowWithLineAndType))
                  /\ result.commentsPosted = 1 + Len(issueNotesPosted(j))
                  /\ Len(notes[j]) = result.commentsPosted

\* a completed run on two files: of the two issues of the first file one
\* was posted and the post of the other failed; the second file has a low
\* issue and an issue without a line, and no note
C13_Witness ==
    \E j \in JobIds :
        /\ statusOf(reviewJobs, j) = "completed"
        /\ issueNotesPosted(j) = <<[filename |-> 1, line |-> 9]>>
        /\ LET frs == reviewJobs[j][1].result[1].fileReviews[1]
           IN  /\ Len(frs) = 2
               /\ Len(frs[1].issues[1]) = 2
               /\ Len(frs[2].issues[1]) = 2
               /\ frs[1].issues[1][1].severity = "high"
               /\ frs[1].issues[1][1].line = <<7>>
               /\ frs[1].issues[1][1].type # <<>>
               /\ frs[2].issues[1][1].severity = "low"
               /\ frs[2].issues[1][2].line = <<>>

\* the number of per-issue notes among a job's notes
issueNoteCount(posted) ==
    Len(SelectSeq(posted, LAMBDA note : note.kind = "issue"))

\* C40: the post of a per-issue note, failing or not, never fails the job:
\* the next issue is attempted, or after the last one the job is completed
\* with commentsPosted = 1 + the per-issue notes posted; the post of the
\* summary note failing ends the job failed, with no note posted and no
\* issue attempted.
C40_IssueNoteFailuresAreSwallowed ==
    [][\A j \in JobIds :
          /\ (flow[j].pc = "postIssue" /\ flow'[j] # flow[j]) =>
                /\ notes'[j] \in {notes[j],
                                  Append(notes[j],
                                         [kind |-> "issue",
                                          filename |-> Head(flow[j].toPost).filename,
                                          line |-> Head(flow[j].toPost).line])}
                /\ IF Tail(flow[j].toPost) # <<>>
                   THEN /\ flow'[j].pc = "postIssue"
                        /\ flow'[j].toPost = Tail(flow[j].toPost)
                        /\ statusOf(reviewJobs', j) = "processing"
                   ELSE /\ flow'[j].pc = "done"
                        /\ statusOf(reviewJobs', j) = "completed"
                        /\ reviewJobs'[j][1].result[1].commentsPosted
                              = 1 + issueNoteCount(notes'[j])
          /\ (statusOf(reviewJobs, j) = "processing"
                 /\ statusOf(reviewJobs', j) = "failed") =>
                /\ flow[j].pc = "postSummary"
                /\ flow'[j].pc = "done"
                /\ notes'[j] = <<>>
      ]_vars

\* a completed run with two issues to post: the post of the first failed,
\* the second was still attempted and posted, two comments are counted
C40_Witness ==
    \E j \in JobIds :
        /\ statusOf(reviewJobs, j) = "completed"
        /\ Len(notesToPost(reviewJobs[j][1].result[1])) = 2
        /\ issueNotesPosted(j) = <<notesToPost(reviewJobs[j][1].result[1])[2]>>
        /\ reviewJobs[j][1].result[1].commentsPosted = 2

\* C22: over the whole life of a job the progress values recorded for it
\* never decrease: no step of the controller replaces the progress of a
\* stored job by a smaller one, on the success path or on a failure path.
C22_ProgressNeverDecreases ==
    [][\A j \in JobIds :
          (reviewJobs[j] # <<>> /\ reviewJobs'[j] # <<>>
              /\ reviewJobs[j][1].progress # <<>>
              /\ reviewJobs'[j][1].progress # <<>>) =>
             reviewJobs'[j][1].progress[1] >= reviewJobs[j][1].progress[1]]_vars

\* C34 as stated: the record of a job is changed only by steps of that
\* job's own processing flow.
C34_OnlyOwnFlowWrites ==
    [][\A j \in JobIds :
          reviewJobs'[j] # reviewJobs[j] => flow'[j] # flow[j]]_vars

\* C34, amended: a step that is not a step of job j's processing flow (a
\* feedback submission, or a step of another job's flow) neither creates
\* nor removes j's record and changes at most its feedback field, so the
\* progress, status, result and error the flow wrote stay as they are; a
\* step of j's flow keeps the feedback stored before it.
C34_FlowFieldsHaveOneWriter ==
    [][\A j \in JobIds :
          /\ flow'[j] = flow[j] =>
                IF reviewJobs[j] = <<>> THEN reviewJobs'[j] = <<>>
                ELSE /\ reviewJobs'[j] # <<>>
                     /\ reviewJobs'[j][1] =
                           [reviewJobs[j][1] EXCEPT
                               !.feedback = reviewJobs'[j][1].feedback]
          /\ (flow'[j] # flow[j] /\ reviewJobs[j] # <<>>) =>
                /\ reviewJobs'[j] # <<>>
                /\ reviewJobs'[j][1].feedback = reviewJobs[j][1].feedback]_vars

\* feedback was given on a job while its run was going on, and the run's
\* later progress updates kept it
C34_Witness ==
    \E j \in JobIds :
        /\ reviewJobs[j] # <<>>
        /\ reviewJobs[j][1].status = <<"processing">>
        /\ reviewJobs[j][1].progress = <<80>>
        /\ reviewJobs[j][1].feedback # <<>>
        /\ flow[j].pc = "postIssue"

\* the diagnostic the catch block of processReviewAsync has for a status
diagnosticOf(status) ==
    IF status = 401 THEN "GitLab authentication failed. Please check: ..."
    ELSE IF status = 404 THEN "GitLab resource not found. Please check: ..."
    ELSE "GitLab access forbidden. ..."

\* C31: when a GitLab call of a review run has failed with HTTP status 401,
\* 403 or 404, the step message recorded for the job is the diagnostic for
\* that status (authentication failed, access forbidden, resource not
\* found) and not the raw message of the error.
C31_SpecificDiagnostic ==
    \A j \in JobIds : \A failure \in GitLabFailures :
        (/\ failure.statusCode \in {<<401>>, <<403>>, <<404>>}
         /\ reviewJobs[j] # <<>>
         /\ reviewJobs[j][1].status = <<"failed">>
         /\ reviewJobs[j][1].error = <<failure.message>>) =>
            reviewJobs[j][1].currentStep
                = << <<"Error: ", diagnosticOf(failure.statusCode[1])>> >>

(***************************************************************************)
(* Specification of one review run under the assumption that every remote  *)
(* call returns or fails: the pending call of the run (GitLab fetch, model *)
(* call or note post) eventually settles, one way or the other.  Feedback *)
(* may be given on the job meanwhile.                                      *)
(***************************************************************************)
\* the remote call job j's run is waiting for settles
RemoteCallSettles(j) ==
    \/ GitLabFetchRejects(j)
    \/ ChunkCallRejects(j)
    \/ PostSummaryRejects(j)
    \/ PostIssueRejects(j)
    \/ GetMergeRequestFulfils(j)
    \/ GetDiffsFulfils(j)
    \/ GetCommitsFulfils(j)
    \/ ChunkCallFulfils(j)
    \/ PostSummaryFulfils(j)
    \/ PostIssueFulfils(j)

SpecLiveNext ==
    \/ AnalyzeMergeRequest("job1")
    \/ GetMergeRequestFulfils("job1")
    \/ GitLabFetchRejects("job1")
    \/ GetDiffsFulfils("job1")
    \/ GetCommitsFulfils("job1")
    \/ ChunkCallFulfils("job1")
    \/ ChunkCallRejects("job1")
    \/ PostSummaryFulfils("job1")
    \/ PostSummaryRejects("job1")
    \/ PostIssueFulfils("job1")
    \/ PostIssueRejects("job1")
    \/ ProvideFeedback("job1")
SpecLive ==
    Init /\ [][SpecLiveNext]_vars /\ WF_vars(RemoteCallSettles("job1"))

\* job j is stored with one of the two final statuses
finalised(j) ==
    /\ reviewJobs[j] # <<>>
    /\ reviewJobs[j][1].status \in {<<"completed">>, <<"failed">>}

\* C27: when every remote call returns or fails, every job that is created
\* eventually has status 'completed' or 'failed': no path of the run leaves
\* it 'processing' forever.
C27_EveryJobIsFinalised ==
    \A j \in JobIds : (reviewJobs[j] # <<>>) ~> finalised(j)

\* a job completed although the post of one of its issue notes failed
C27_Witness ==
    /\ finalised("job1")
    /\ reviewJobs["job1"][1].status = <<"completed">>
    /\ reviewJobs["job1"][1].result[1].commentsPosted
          < 1 + Len(notesToPost(reviewJobs["job1"][1].result[1]))

\* reviewResult is the combined review of no chunk result
isEmptyReview(reviewResult) ==
    /\ reviewResult.fileReviews = << <<>> >>
    /\ reviewResult.issueCounts = [high |-> 0, medium |-> 0, low |-> 0]
    /\ reviewResult.overallRecommendation = <<"approve">>
    /\ reviewResult.totalTokensUsed = 0
    /\ summaryRecommendation(reviewResult) = "Recommendation: Approve"

\* C37: for a merge request with no changed files no model call is issued
\* and the combined review is still there (no file review, counts 0/0/0,
\* recommendation approve, 0 tokens): the run goes on to post the summary
\* note, which recommends approval, and when that post succeeds the job is
\* completed with that review and the one note.
C37_EmptyMergeRequestApproved ==
    \A j \in JobIds :
        /\ (flow[j].diffs = << <<>> >> /\ flow[j].commits = "ok") =>
              /\ flow[j].pc = "postSummary"
              /\ flow[j].promises = <<>> /\ flow[j].order = <<>>
              /\ isEmptyReview(flow[j].reviewResult[1])
              /\ reviewJobs[j][1].status = <<"processing">>
              /\ reviewJobs[j][1].progress = <<80>>
        /\ (/\ reviewJobs[j] # <<>>
            /\ reviewJobs[j][1].status = <<"completed">>
            /\ reviewJobs[j][1].result[1].fileReviews = << <<>> >>) =>
              /\ isEmptyReview(reviewJobs[j][1].result[1])
              /\ reviewJobs[j][1].result[1].commentsPosted = 1
              /\ notes[j] = <<[kind |-> "summary"]>>

\* the run of a merge request without changed files has completed
C37_Witness ==
    \E j \in JobIds :
        /\ flow[j].pc = "done" /\ flow[j].order = <<>> /\ flow[j].rejected = <<>>
        /\ reviewJobs[j] # <<>>
        /\ reviewJobs[j][1].status = <<"completed">>
        /\ reviewJobs[j][1].result[1].fileReviews = << <<>> >>
        /\ notes[j] = <<[kind |-> "summary"]>>

attemptsMade ==
    Len(execErrors) + (IF execResult # <<>> THEN 1 ELSE 0)
                    + (IF execPc = "call" THEN 1 ELSE 0)

\* C36: whatever the outcomes of the attempts (success, 429, 5xx, other
\* 4xx, no response, in any mix), the executor makes at most retryAttempts
\* attempts, the loop is never left by its test failing, and the call ends
\* either returning the data of a successful attempt or raising an error,
\* never returning no value.
C36_EndsWithDataOrError ==
    /\ attemptsMade <= retryAttempts
    /\ execAttempt <= retryAttempts
    /\ execPc = "returned" => (execResult # <<>> /\ execThrown = <<>>)
    /\ execPc = "thrown" => (execThrown # <<>> /\ execResult = <<>>)

\* all the attempts are used up by a 429, a server error and a failure
\* without response, and an error is raised
C36_Witness ==
    /\ execPc = "thrown"
    /\ Len(execErrors) = retryAttempts
    /\ execErrors[1].response # <<>> /\ execErrors[1].response[1].status = 429
    /\ execErrors[2].response # <<>> /\ execErrors[2].response[1].status >= 500
    /\ execErrors[3].response = <<>>
    /\ execThrown # <<>>

(***************************************************************************)
(* Specification of one review run on a collection that the periodic      *)
(* cleanup sweeps: the cron callback may run between any two steps of the *)
(* run.                                                                    *)
(***************************************************************************)
\* the cron callback runs cleanupOldJobs when job j started before the
\* cutoff (a retention window of 0 days, or a run that outlasts the
\* window): the entry of j is deleted
SweepEvicts(j) ==
    /\ reviewJobs[j] # <<>>
    /\ reviewJobs[j][1].startTime # <<>>
    /\ reviewJobs' = [reviewJobs EXCEPT ![j] = <<>>]
    /\ UNCHANGED <<flow, notes, outsideJobs>>

SpecEvictNext ==
    \/ AnalyzeMergeRequest("job1")
    \/ GetMergeRequestFulfils("job1")
    \/ GitLabFetchRejects("job1")
    \/ GetDiffsFulfils("job1")
    \/ GetCommitsFulfils("job1")
    \/ ChunkCallFulfils("job1")
    \/ ChunkCallRejects("job1")
    \/ PostSummaryFulfils("job1")
    \/ PostSummaryRejects("job1")
    \/ PostIssueFulfils("job1")
    \/ PostIssueRejects("job1")
    \/ ProvideFeedback("job1")
    \/ SweepEvicts("job1")
SpecEvict == Init /\ [][SpecEvictNext]_vars

SpecSweepInit ==
    /\ SweepInit /\ ChunkIdle /\ CombineIdle /\ RetryIdle /\ ExecIdle
    /\ RouteIdle /\ PromptIdle
SpecSweepNext == SweepNext
SpecSweep == SpecSweepInit /\ [][SpecSweepNext]_vars

\* job j is in the collection and started before the clock minus the window
startedBeforeWindow(j) ==
    /\ reviewJobs[j] # <<>>
    /\ reviewJobs[j][1].startTime[1] < now - retentionDays * msPerDay

\* C21: a sweep with a retention window of retentionDays days removes
\* every job that started earlier than the current time minus the window,
\* whatever its status, leaves every other job in place with an unchanged
\* record, and returns the number of jobs it removed.
C21_SweepRemovesExactlyTheOld ==
    [][Len(cleaned') > Len(cleaned) =>
          /\ \A j \in JobIds :
                IF startedBeforeWindow(j)
                THEN reviewJobs'[j] = <<>>
                ELSE reviewJobs'[j] = reviewJobs[j]
          /\ cleaned'[Len(cleaned')] =
                Cardinality({j \in JobIds : startedBeforeWindow(j)})]_vars

\* a sweep removed one job and left a job in place that is still processing
\* and started exactly at the start of the window
C21_Witness ==
    /\ cleaned # <<>>
    /\ cleaned[Len(cleaned)] = 1
    /\ retentionDays > 0
    /\ \E j \in JobIds :
          /\ reviewJobs[j] # <<>>
          /\ reviewJobs[j][1].status = <<"processing">>
          /\ reviewJobs[j][1].startTime[1] = now - retentionDays * msPerDay

(***************************************************************************)
(* Specification of the analyze route: requests with and without a token,  *)
(* with and without a well-formed URL, are handled one after the other.    *)
(***************************************************************************)
SpecRouteInit ==
    /\ RouteInit /\ ChunkIdle /\ CombineIdle /\ RetryIdle /\ ExecIdle
    /\ SweepIdle /\ PromptIdle
SpecRouteNext == RouteNext
SpecRoute == SpecRouteInit /\ [][SpecRouteNext]_vars

\* the URLs of the accepted format: http or https, a host, one or more
\* group and project names, "-", "merge_requests" and a decimal number
AcceptedMrUrls ==
    { <<scheme, "", "gitlab.example.com">> \o path
          \o <<"-", "merge_requests", id>> :
        scheme \in {"http:", "https:"},
        path \in SeqsUpTo({"group"}, MaxPathSegs) \ {<<>>},
        id \in DigitPieces }

\* the request carries a merge-request URL of the accepted format
hasAcceptedMrUrl(request) ==
    request.mrUrl # <<>> /\ request.mrUrl[1] \in AcceptedMrUrls

\* C23: handling a request without a token answers 401 and creates no job,
\* whatever the URL is; handling a request with a token and a missing or
\* malformed URL answers 400 and creates no job; hence a job is created
\* only for a request with a token and a URL of the accepted format.
C23_JobOnlyForTokenAndUrl ==
    [][(req' # <<>> /\ <<req, res, reviewJobs>>' # <<req, res, reviewJobs>>) =>
          LET request == req'[1]
          IN  /\ noToken(request.token) =>
                    res'[1].status = 401 /\ reviewJobs' = reviewJobs
              /\ (~noToken(request.token) /\ ~hasAcceptedMrUrl(request)) =>
                    res'[1].status = 400 /\ reviewJobs' = reviewJobs
              /\ reviewJobs' # reviewJobs =>
                    ~noToken(request.token) /\ hasAcceptedMrUrl(request)]_vars

\* a request without a token and with a malformed URL was answered 401
\* after an earlier request had created a job
C23_Witness ==
    /\ req # <<>>
    /\ noToken(req[1].token)
    /\ ~noMrUrl(req[1].mrUrl)
    /\ ~hasAcceptedMrUrl(req[1])
    /\ res = <<Response(401, "TOKEN_MISSING")>>
    /\ \E j \in JobIds : reviewJobs[j] # <<>>

(***************************************************************************)
(* Specification of the chunk requests: a merge request's file changes and *)
(* commits are put together and generateCodeReview builds the prompts.     *)
(***************************************************************************)
SpecPromptInit ==
    /\ PromptInit /\ CombineIdle /\ RetryIdle /\ JobsIdle /\ ExecIdle
    /\ SweepIdle /\ RouteIdle
SpecPromptNext == PromptNext
SpecPrompt == SpecPromptInit /\ [][SpecPromptNext]_vars

\* C32: every chunk request of a merge request, a single one included,
\* carries the sums of the additions and of the deletions of all changed
\* files of the merge request, the index of its chunk and the number of
\* chunks.
C32_TotalsAndChunkPosition ==
    chunked =>
        \A k \in 1..Len(prompts) :
            /\ prompts[k].totalAdditions = totalAdditions(Flatten(chunks))
            /\ prompts[k].totalDeletions = totalDeletions(Flatten(chunks))
            /\ prompts[k].chunkOf = <<[index |-> k, total |-> Len(chunks)]>>

\* C33: the prompt of every chunk request holds the messages of the first
\* 5 commits of the merge request, all of them when there are fewer, in
\* their order, and of no later commit.
C33_FirstFiveCommitMessages ==
    chunked =>
        \A k \in 1..Len(prompts) :
            prompts[k].commitMessages =
                [i \in 1..(IF Len(commits) < 5 THEN Len(commits) ELSE 5) |->
                    commits[i].message]

====
